---- MODULE Spec2Model ----
(***************************************************************************)
(* FGN Savings Bond subscription application (ajakaiye33/fgn-bonds).       *)
(*                                                                         *)
(* Spec      the subscription wizard (FormWizard): the react-hook-form     *)
(*           values, the useFormWizard step counter and what each step     *)
(*           renders, ReviewStep in particular.                            *)
(* SpecHook  the useFormWizard hook on its own, driven the way its unit    *)
(*           tests drive it (one call at a time, re-rendered in between).  *)
(* SpecPdf   the document generation engine of spec.md section 4           *)
(*           (backend/pdf, not part of the sources at hand).               *)
(* SpecEntry the wizard again, typing amounts, account numbers, BVNs and   *)
(*           investor categories: what validateStep lets past a step.      *)
(* SpecSubmit the wizard up to and through handleSubmit.                   *)
(* SpecModal the admin's ApplicationDetailModal and its payment requests.  *)
(* SpecUpload the DocumentUpload of that modal.                            *)
(* SpecAuth  the useAuth hook with its requests in flight.                 *)
(* SpecHookRace the useFormWizard hook with calls that overlap.             *)
(* SpecLib   numberToWords, formatMoneyInWords and normalizePhoneNumber,    *)
(*           each called once on an input of its own.                      *)
(* SpecReports the reports tab of the AdminDashboard.                       *)
(* SpecList  the applications list of the AdminDashboard.                  *)
(***************************************************************************)
EXTENDS Integers, Sequences, FiniteSets, TLC

VARIABLES
    form,          \* react-hook-form values of the wizard (ApplicationFormData)
    currentStep,   \* useFormWizard: useState(0)
    renderedStep,  \* currentStep as captured by the callbacks of the last render
    hasValidator,  \* useFormWizard: whether a validateStep callback was supplied
    pending,       \* nextStep calls suspended at `await validateStep(currentStep)`
    canProceed,    \* useFormWizard: useState(true)
    lastOp,        \* the last hook call: its name, argument and the step it saw
    asmState,      \* Template Assembler state
    appData,       \* ApplicationData handed to generate()
    document,      \* RenderedDocument: the emitted blocks, in order
    output,        \* the byte stream generate() returns
    primIn,        \* input of the primitive under evaluation
    primOut,       \* what that primitive rendered
    declarationAccepted, \* ReviewStep: useState(false)
    isSubmitting,  \* FormWizard: useState(false)
    submitError,   \* FormWizard: useState(null)
    submitCall,    \* handleSubmit calls suspended at `await submitApplication`
    submittedId,   \* SubscriptionForm: useState(null)
    submitResponse, \* how the last submitApplication request ended
    application,   \* ApplicationDetailModal: useState(null)
    payment,       \* ApplicationDetailModal: useState(null)
    documents,     \* ApplicationDetailModal: useState([])
    modalIsLoading,    \* ApplicationDetailModal: isLoading, useState(true)
    modalError,        \* ApplicationDetailModal: error, useState(null)
    showPaymentForm,   \* ApplicationDetailModal: useState(false)
    modalIsSubmitting, \* ApplicationDetailModal: isSubmitting, useState(false)
    showRejectDialog,  \* ApplicationDetailModal: useState(false)
    rejectionReason,   \* ApplicationDetailModal: useState('')
    fetchCall,     \* the await fetchApplicationDetails is suspended at
    mutationCall,  \* the record / verify / reject / delete request in flight
    srvPayment,    \* server: the payment recorded for the application
    srvDocuments,  \* server: the ids of the documents of that payment
    uploadError,   \* DocumentUpload: error, useState(null)
    isUploading,   \* DocumentUpload: useState(false)
    uploads,       \* the handleFile calls so far and how far each has got
    token,         \* localStorage 'token'
    user,          \* useAuth: useState(null)
    authIsLoading, \* useAuth: isLoading, useState(true)
    authCalls,     \* the getCurrentUser and login requests in flight
    loginError,    \* AdminLogin: error, useState('')
    loggedOut,     \* logout has returned and no later login has succeeded
    libCall,       \* the last call of a function of lib/utils.ts, with its result
    filters,       \* AdminDashboard: useState<Filters>, its page and search
    totalPages,    \* AdminDashboard: useState(1)
    applications,  \* AdminDashboard: useState([]), the page of results shown
    listIsLoading, \* AdminDashboard: isLoading, useState(true)
    listCalls,     \* the fetchData calls suspended at `await Promise.all`
    searchClick,   \* the filters at the last Search click, nothing clicked since
    reportPeriod,  \* AdminDashboard: reportMonth and reportYear
    reportSummary, \* AdminDashboard: useState(null)
    submissions,   \* AdminDashboard: useState([])
    isLoadingReport, \* AdminDashboard: useState(false)
    reportCalls,   \* the fetchReportData calls suspended at `await Promise.all`
    markCalls,     \* the markAsSubmittedToDmo requests sent, and how they ended
    srvSubmitted   \* server: the periods marked as submitted to the DMO

vars == <<form, currentStep, renderedStep, hasValidator, pending, canProceed,
          lastOp, asmState, appData, document, output, primIn, primOut,
          declarationAccepted, isSubmitting, submitError, submitCall,
          submittedId, submitResponse, application, payment, documents,
          modalIsLoading,
          modalError, showPaymentForm, modalIsSubmitting, showRejectDialog,
          rejectionReason, fetchCall, mutationCall, srvPayment, srvDocuments,
          uploadError, isUploading, uploads, token, user, authIsLoading,
          authCalls, loginError, loggedOut, libCall, filters, totalPages,
          applications, listIsLoading, listCalls, searchClick, reportPeriod,
          reportSummary, submissions, isLoadingReport, reportCalls, markCalls,
          srvSubmitted>>

hookVars == <<hasValidator, pending, canProceed, lastOp>>
pdfVars == <<asmState, appData, document, output, primIn, primOut>>
submitVars == <<declarationAccepted, isSubmitting, submitError, submitCall,
                submittedId, submitResponse>>
modalVars == <<application, payment, documents, modalIsLoading, modalError,
               showPaymentForm, modalIsSubmitting, showRejectDialog,
               rejectionReason, fetchCall, mutationCall, srvPayment,
               srvDocuments>>
uploadVars == <<uploadError, isUploading, uploads>>
authVars == <<token, user, authIsLoading, authCalls, loginError, loggedOut>>
libVars == <<libCall>>
listVars == <<filters, totalPages, applications, listIsLoading, listCalls,
              searchClick>>
reportVars == <<reportPeriod, reportSummary, submissions, isLoadingReport,
                reportCalls, markCalls, srvSubmitted>>
adminVars == <<modalVars, uploadVars, authVars, libVars, listVars, reportVars>>

(***************************************************************************)
(* Wizard steps and form fields                                            *)
(***************************************************************************)

\* WIZARD_STEPS, by title; the step ids are the positions minus one
WIZARD_STEPS ==
    << "Bond Details", "Applicant Type", "Applicant Info", "Bank Details",
       "Classification", "Distribution", "Review & Submit" >>

totalSteps == Len(WIZARD_STEPS)

isFirstStep == currentStep = 0
isLastStep == currentStep = totalSteps - 1

ApplicantTypes == {"Individual", "Joint", "Corporate"}

\* the text inputs of IndividualForm without a prefix (primary applicant)
IndividualInputs ==
    { "title", "full_name", "date_of_birth", "phone_number", "email",
      "occupation", "passport_no", "next_of_kin", "mothers_maiden_name",
      "cscs_number", "chn_number", "address" }

\* the text inputs of IndividualForm with prefix="joint"
JointInputs ==
    { "joint_title", "joint_full_name", "joint_date_of_birth",
      "joint_phone_number", "joint_email", "joint_occupation",
      "joint_passport_no", "joint_next_of_kin", "joint_address" }

\* the text inputs of CorporateForm
CorporateInputs ==
    { "company_name", "rc_number", "business_type", "contact_person",
      "corp_phone_number", "corp_email", "corp_passport_no" }

\* the inputs of BankForm without a prefix, and with prefix="joint"
BankInputs == { "bank_name", "bank_branch", "account_number", "sort_code", "bvn" }
JointBankInputs ==
    { "joint_bank_name", "joint_bank_branch", "joint_account_number",
      "joint_sort_code", "joint_bvn" }

AgentInputs == { "agent_name", "stockbroker_code" }
WitnessInputs == { "witness_name", "witness_address" }

TextFields ==
    IndividualInputs \cup JointInputs \cup CorporateInputs \cup BankInputs
      \cup JointBankInputs \cup AgentInputs \cup WitnessInputs

\* fields rendered with <Select>: the placeholder option is disabled, so a
\* chosen value cannot be cleared again
SelectFields == { "title", "joint_title", "bank_name", "joint_bank_name" }

\* the text inputs the model types into; every other text input keeps its
\* default (empty) value
EditableFields ==
    { "full_name", "date_of_birth", "next_of_kin", "company_name", "rc_number",
      "bank_name", "account_number", "joint_bank_name", "joint_account_number",
      "agent_name", "stockbroker_code", "witness_name" }

\* one well-formed value per text input
SampleValue(f) ==
    CASE f \in {"account_number", "joint_account_number"} -> "0123456789"
      [] f \in {"bvn", "joint_bvn"} -> "12345678901"
      [] f \in {"bank_name", "joint_bank_name"} -> "Access Bank"
      [] f = "date_of_birth" -> "1990-01-01"
      [] OTHER -> "x"

\* a value that is too short for an account number and for a BVN
ShortNumber == "12345"

\* what the user can put into input f
InputValues(f) ==
    IF f \in SelectFields THEN { SampleValue(f) }
    ELSE IF f \in {"account_number", "joint_account_number", "bvn", "joint_bvn"}
    THEN { "", ShortNumber, SampleValue(f) }
    ELSE { "", SampleValue(f) }

\* useForm defaultValues; a field without a default is undefined, which every
\* reader in scope treats like the empty string
defaultValues ==
    [ f \in TextFields |-> "" ] @@
    [ tenor |-> "2-Year",
      month_of_offer |-> "January",
      bond_value |-> 5000,
      amount_in_words |-> "Five Thousand Naira",
      applicant_type |-> "Individual",
      is_resident |-> TRUE,
      investor_category |-> <<>>,
      needs_witness |-> FALSE,
      witness_acknowledged |-> FALSE ]

(***************************************************************************)
(* Validation: applicationFormSchema through zodResolver and form.trigger  *)
(***************************************************************************)

BOND_VALUE_MIN == 5000
BOND_VALUE_MAX == 50000000

\* accountNumberRegex = /^\d{10}$/ on the values the model uses
accountNumberRegex(s) == s = "0123456789"

\* bvnRegex = /^\d{11}$/ on the values the model uses
bvnRegex(s) == s = "12345678901"

\* applicationFormSchema with bond_value: z.number().min(5000) and no max
SchemaErrors_NoMax(data) ==
    { f \in {"tenor"} : data.tenor \notin {"2-Year", "3-Year"} }
      \cup { f \in {"month_of_offer"} : data.month_of_offer = "" }
      \cup { f \in {"bond_value"} : data.bond_value < BOND_VALUE_MIN }
      \cup { f \in {"amount_in_words"} : data.amount_in_words = "" }
      \cup { f \in {"applicant_type"} : data.applicant_type \notin ApplicantTypes }
      \cup { f \in {"bank_name"} : data.bank_name = "" }
      \cup { f \in {"account_number"} : ~accountNumberRegex(data.account_number) }

\* the keys of applicationFormSchema whose value is rejected
SchemaErrors(data) ==
    { f \in {"tenor"} : data.tenor \notin {"2-Year", "3-Year"} }
      \cup { f \in {"month_of_offer"} : data.month_of_offer = "" }
      \cup { f \in {"bond_value"} :
               data.bond_value < BOND_VALUE_MIN \/ data.bond_value > BOND_VALUE_MAX }
      \cup { f \in {"amount_in_words"} : data.amount_in_words = "" }
      \cup { f \in {"applicant_type"} : data.applicant_type \notin ApplicantTypes }
      \cup { f \in {"bank_name"} : data.bank_name = "" }
      \cup { f \in {"account_number"} : ~accountNumberRegex(data.account_number) }

\* validateStep: the fields it hands to form.trigger
fieldsToValidate(step, data) ==
    CASE step = 0 -> { "tenor", "month_of_offer", "bond_value" }
      [] step = 1 -> { "applicant_type" }
      [] step = 2 ->
           IF data.applicant_type = "Individual"
           THEN { "title", "full_name", "date_of_birth", "phone_number",
                  "email", "next_of_kin", "address" }
           ELSE IF data.applicant_type = "Joint"
           THEN { "title", "full_name", "date_of_birth", "phone_number",
                  "email", "next_of_kin", "address",
                  "joint_title", "joint_full_name", "joint_date_of_birth",
                  "joint_phone_number", "joint_email", "joint_next_of_kin",
                  "joint_address" }
           ELSE { "company_name", "rc_number", "business_type",
                  "contact_person", "corp_phone_number", "corp_email" }
      [] step = 3 ->
           { "bank_name", "account_number" } \cup
             ( IF data.applicant_type = "Joint"
               THEN { "joint_bank_name", "joint_account_number" } ELSE {} )
      [] step = 4 -> { "is_resident", "investor_category" }
      [] OTHER -> {}

\* validateStep(step): form.trigger(names) is true iff none of names has an
\* error of the resolver's schema
validateStep(step, data) ==
    LET names == fieldsToValidate(step, data)
    IN  IF names = {} THEN TRUE ELSE names \cap SchemaErrors(data) = {}

(***************************************************************************)
(* Amounts: CurrencyInput, numberToWords, formatMoneyInWords               *)
(***************************************************************************)

\* numberToWords: the word tables, the JavaScript index i at position i + 1
units ==
    << "", "One", "Two", "Three", "Four", "Five", "Six", "Seven", "Eight", "Nine" >>
teens ==
    << "Ten", "Eleven", "Twelve", "Thirteen", "Fourteen", "Fifteen", "Sixteen",
       "Seventeen", "Eighteen", "Nineteen" >>
tens ==
    << "", "", "Twenty", "Thirty", "Forty", "Fifty", "Sixty", "Seventy",
       "Eighty", "Ninety" >>
suffixes == << "", "Thousand", "Million", "Billion" >>

\* Array.prototype.join(' ')
RECURSIVE joinWords(_)
joinWords(arr) ==
    IF arr = <<>> THEN ""
    ELSE IF Len(arr) = 1 THEN arr[1]
    ELSE arr[1] \o " " \o joinWords(Tail(arr))

\* the characters of a decimal digit string, and their values
DigitChars == { "0", "1", "2", "3", "4", "5", "6", "7", "8", "9" }
digitValue(c) ==
    CASE c = "0" -> 0 [] c = "1" -> 1 [] c = "2" -> 2 [] c = "3" -> 3
      [] c = "4" -> 4 [] c = "5" -> 5 [] c = "6" -> 6 [] c = "7" -> 7
      [] c = "8" -> 8 [] c = "9" -> 9

\* parseInt(rawValue, 10) of a non-empty string of digits
RECURSIVE parseInt(_)
parseInt(digits) ==
    IF Len(digits) = 1 THEN digitValue(digits[1])
    ELSE 10 * parseInt(SubSeq(digits, 1, Len(digits) - 1))
           + digitValue(digits[Len(digits)])

\* Math.floor(num).toString() of a whole number below 10^21: its decimal
\* digits, a string being a sequence of characters
DigitSeq == << "0", "1", "2", "3", "4", "5", "6", "7", "8", "9" >>
RECURSIVE toString(_)
toString(num) ==
    IF num < 10 THEN << DigitSeq[num + 1] >>
    ELSE toString(num \div 10) \o << DigitSeq[(num % 10) + 1] >>

\* numberToWords.getNumber(n) on a string of digits
RECURSIVE getNumber(_)
getNumber(n) ==
    IF n = << "0" >> THEN ""
    ELSE IF Len(n) = 1 THEN units[parseInt(n) + 1]
    ELSE IF Len(n) = 2 THEN
        IF n[1] = "1" THEN teens[digitValue(n[2]) + 1]
        ELSE LET tenPart == tens[digitValue(n[1]) + 1]
                 unitPart == IF digitValue(n[2]) # 0
                             THEN units[digitValue(n[2]) + 1] ELSE ""
             IN  joinWords(SelectSeq(<< tenPart, unitPart >>, LAMBDA w : w # ""))
    ELSE IF Len(n) = 3 THEN
        IF n[1] = "0" THEN getNumber(Tail(n))
        ELSE LET rest == getNumber(Tail(n))
             IN  units[digitValue(n[1]) + 1] \o " Hundred"
                   \o ( IF rest # "" THEN " and " \o rest ELSE "" )
    ELSE ""

\* the while loop of numberToWords.getGroups with its final reverse(): the
\* last three characters are cut off until nothing is left
RECURSIVE getGroupsLoop(_)
getGroupsLoop(n) ==
    IF Len(n) = 0 THEN <<>>
    ELSE IF Len(n) >= 3
         THEN getGroupsLoop(SubSeq(n, 1, Len(n) - 3))
                \o << SubSeq(n, Len(n) - 2, Len(n)) >>
         ELSE << n >>

\* numberToWords.getGroups(n)
getGroups(n) == IF n = << "0" >> THEN << << "0" >> >> ELSE getGroupsLoop(n)

\* the groups.forEach of numberToWords from the group at index i on (the
\* JavaScript index i - 1): the words pushed
RECURSIVE groupWords(_, _)
groupWords(groups, i) ==
    IF i > Len(groups) THEN <<>>
    ELSE ( IF parseInt(groups[i]) # 0
           THEN LET word == getNumber(groups[i])
                    k == Len(groups) - i
                    suffix == IF k + 1 <= Len(suffixes) THEN suffixes[k + 1] ELSE ""
                IN  << IF suffix # "" THEN word \o " " \o suffix ELSE word >>
           ELSE <<>> )
         \o groupWords(groups, i + 1)

\* numberToWords without its `num === 0` line
numberToWords_NoZero(num) ==
    joinWords(groupWords(getGroups(toString(num)), 1))

\* numberToWords(num) for a whole number
numberToWords(num) ==
    IF num = 0 THEN "Zero"
    ELSE joinWords(groupWords(getGroups(toString(num)), 1))

\* a JavaScript number `amount` is held as its whole part and the count of
\* thousandths above it: whole + fraction / Thousandths, 0 <= fraction < 1000
Thousandths == 1000

\* formatMoneyInWords(amount) for amount = whole + fraction / Thousandths;
\* Math.round rounds a half up
formatMoneyInWords(whole, fraction) ==
    LET naira == whole
        kobo == ((fraction * 100) + (Thousandths \div 2)) \div Thousandths
    IN  numberToWords(naira) \o " Naira"
          \o ( IF kobo > 0 THEN " and " \o numberToWords(kobo) \o " Kobo" ELSE "" )

\* String.prototype.startsWith on strings held as sequences of characters
startsWith(str, prefix) ==
    Len(str) >= Len(prefix) /\ SubSeq(str, 1, Len(prefix)) = prefix

\* normalizePhoneNumber whose '0' branch is the only one
normalizePhoneNumber_ZeroOnly(phone) ==
    LET cleaned == SelectSeq(phone, LAMBDA c : c \in DigitChars \cup { "+" })
    IN  IF startsWith(cleaned, << "0" >>)
        THEN << "+", "2", "3", "4" >> \o Tail(cleaned)
        ELSE cleaned

\* normalizePhoneNumber(phone)
normalizePhoneNumber(phone) ==
    LET cleaned == SelectSeq(phone, LAMBDA c : c \in DigitChars \cup { "+" })
    IN  IF startsWith(cleaned, << "0" >>)
        THEN << "+", "2", "3", "4" >> \o Tail(cleaned)
        ELSE IF startsWith(cleaned, << "2", "3", "4" >>)
        THEN << "+" >> \o cleaned
        ELSE cleaned

\* phoneRegex = /^(\+234|234|0)[789]\d{9}$/
phoneRegex(str) ==
    \E prefix \in { << "+", "2", "3", "4" >>, << "2", "3", "4" >>, << "0" >> } :
        /\ startsWith(str, prefix)
        /\ Len(str) = Len(prefix) + 10
        /\ str[Len(prefix) + 1] \in { "7", "8", "9" }
        /\ \A i \in (Len(prefix) + 2)..Len(str) : str[i] \in DigitChars

\* CurrencyInput.handleChange: the number it hands to onChange for the typed
\* text (a sequence of characters); without a digit parseInt is NaN and the
\* number is 0
handleChange(text) ==
    LET rawValue == SelectSeq(text, LAMBDA c : c \in DigitChars)
    IN  IF rawValue = <<>> THEN 0 ELSE parseInt(rawValue)

\* what the user types into the subscription amount
AmountTexts ==
    { <<>>,
      << "4", "9", "9", "9" >>,
      << "5", "0", "0", "0" >>,
      << "N", "2", "5", ",", "0", "0", "0" >>,
      << "5", "0", "0", "0", "0", "0", "0", "0" >>,
      << "5", "0", "0", "0", "0", "0", "0", "1" >> }

\* handleBondValueChange that leaves amount_in_words as it was
handleBondValueChange_ValueOnly(data, value) ==
    [data EXCEPT !.bond_value = value]

\* BondDetailsStep.handleBondValueChange(value)
handleBondValueChange(data, value) ==
    [data EXCEPT !.bond_value = value,
                 !.amount_in_words =
                     IF value > 0 THEN formatMoneyInWords(value, 0)
                     ELSE ""]

\* INVESTOR_CATEGORIES, the options of the CheckboxGroup of ClassificationStep
INVESTOR_CATEGORIES ==
    << "Individual", "Insurance", "Corporate", "Others", "Foreign Investor",
       "Non-Bank Financial Institution", "Co-operative Society",
       "Government Agencies", "Staff Scheme", "Micro Finance Bank" >>

\* CheckboxGroup.handleChange(optionValue, checked) on value
CheckboxGroupChange(value, optionValue, checked) ==
    IF checked THEN Append(value, optionValue)
    ELSE SelectSeq(value, LAMBDA v : v # optionValue)

(***************************************************************************)
(* useFormWizard                                                           *)
(***************************************************************************)

\* the upper bound of goToStep off by one
goToStepResult_OffByOne(step, prev) ==
    IF step >= 0 /\ step <= totalSteps THEN step ELSE prev

\* goToStep(step) called when the state is prev
goToStepResult(step, prev) ==
    IF step >= 0 /\ step < totalSteps THEN step ELSE prev

\* whether nextStep, from a render that saw step c, goes past its guard
nextStepGuard(c) == c < totalSteps - 1

\* nextStep that does not look at what validateStep resolved to
nextStepResult_IgnoreValid(c, prev, validated, isValid) ==
    IF nextStepGuard(c) THEN prev + 1 ELSE prev

\* the state after a nextStep call of a render that saw step c has run to its
\* end, isValid being what validateStep resolved to
nextStepResult(c, prev, validated, isValid) ==
    IF nextStepGuard(c)
    THEN IF validated /\ ~isValid THEN prev ELSE prev + 1
    ELSE prev

\* prevStep of a render that saw step c
prevStepResult(c, prev) ==
    IF c > 0 THEN prev - 1 ELSE prev

(***************************************************************************)
(* What the steps render                                                   *)
(***************************************************************************)

\* the inputs on screen at a step (register / Controller calls of the step)
VisibleInputs(step, data) ==
    CASE step = 2 ->
           IF data.applicant_type = "Corporate" THEN CorporateInputs
           ELSE IF data.applicant_type = "Joint"
           THEN IndividualInputs \cup JointInputs
           ELSE IndividualInputs
      [] step = 3 ->
           BankInputs \cup
             ( IF data.applicant_type = "Joint" THEN JointBankInputs ELSE {} )
      [] step = 5 ->
           AgentInputs \cup ( IF data.needs_witness THEN WitnessInputs ELSE {} )
      [] OTHER -> {}

\* ReviewStep's Field: nothing for an undefined, null or empty value, else one
\* row of label and displayed value
Field(label, value) ==
    IF value = "" THEN <<>> ELSE << [label |-> label, value |-> value] >>

\* ReviewStep's Section: a titled card around its children
Section(title, children) == [title |-> title, fields |-> children]

\* formatCurrency: never empty; the digits stand for the formatted amount
formatCurrency(amount) == "NGN " \o ToString(amount)

\* Array.prototype.join(', ')
RECURSIVE join(_)
join(arr) ==
    IF arr = <<>> THEN ""
    ELSE IF Len(arr) = 1 THEN arr[1]
    ELSE arr[1] \o ", " \o join(Tail(arr))

BondDetailsSection(data) ==
    << Section("Bond Details",
         Field("Tenor", data.tenor)
           \o Field("Month of Offer", data.month_of_offer)
           \o Field("Bond Value", formatCurrency(data.bond_value))
           \o Field("Amount in Words", data.amount_in_words \o " Only")
           \o Field("Applicant Type", data.applicant_type)) >>

\* the fields of the Corporate branch of the applicant section
CompanyFields(data) ==
    Field("Company Name", data.company_name)
      \o Field("RC Number", data.rc_number)
      \o Field("Business Type", data.business_type)
      \o Field("Contact Person", data.contact_person)
      \o Field("Phone Number", data.corp_phone_number)
      \o Field("Email", data.corp_email)
      \o Field("Passport/ID Number", data.corp_passport_no)

\* the fields of the Individual/Joint branch of the applicant section
PersonalFields(data) ==
    Field("Title", data.title)
      \o Field("Full Name", data.full_name)
      \o Field("Date of Birth", data.date_of_birth)
      \o Field("Phone Number", data.phone_number)
      \o Field("Email", data.email)
      \o Field("Occupation", data.occupation)
      \o Field("Passport/ID Number", data.passport_no)
      \o Field("Next of Kin", data.next_of_kin)
      \o Field("Mother's Maiden Name", data.mothers_maiden_name)
      \o Field("Address", data.address)
      \o Field("CSCS Number", data.cscs_number)
      \o Field("CHN Number", data.chn_number)

\* the branch test never matches: the personal fields are shown for every type
ApplicantSection_NoBranch(data) ==
    << Section(IF data.applicant_type = "Corporate"
               THEN "Company Information" ELSE "Applicant Information",
               PersonalFields(data)) >>

ApplicantSection(data) ==
    << Section(IF data.applicant_type = "Corporate"
               THEN "Company Information" ELSE "Applicant Information",
               IF data.applicant_type = "Corporate"
               THEN CompanyFields(data) ELSE PersonalFields(data)) >>

JointApplicantSection(data) ==
    IF data.applicant_type = "Joint"
    THEN << Section("Joint Applicant Information",
              Field("Title", data.joint_title)
                \o Field("Full Name", data.joint_full_name)
                \o Field("Date of Birth", data.joint_date_of_birth)
                \o Field("Phone Number", data.joint_phone_number)
                \o Field("Email", data.joint_email)
                \o Field("Occupation", data.joint_occupation)
                \o Field("Passport/ID Number", data.joint_passport_no)
                \o Field("Next of Kin", data.joint_next_of_kin)
                \o Field("Address", data.joint_address)) >>
    ELSE <<>>

BankSection(data) ==
    << Section(IF data.applicant_type = "Joint"
               THEN "Primary Applicant's Bank Details" ELSE "Bank Details",
         Field("Bank Name", data.bank_name)
           \o Field("Bank Branch", data.bank_branch)
           \o Field("Account Number", data.account_number)
           \o Field("Sort Code", data.sort_code)
           \o Field("BVN", data.bvn)) >>

JointBankSection(data) ==
    IF data.applicant_type = "Joint" /\ data.joint_bank_name # ""
    THEN << Section("Joint Applicant's Bank Details",
              Field("Bank Name", data.joint_bank_name)
                \o Field("Bank Branch", data.joint_bank_branch)
                \o Field("Account Number", data.joint_account_number)
                \o Field("Sort Code", data.joint_sort_code)
                \o Field("BVN", data.joint_bvn)) >>
    ELSE <<>>

ClassificationSection(data) ==
    << Section("Classification",
         Field("Residency Status",
               IF data.is_resident THEN "Resident" ELSE "Non-Resident")
           \o Field("Investor Category", join(data.investor_category))) >>

DistributionAgentSection(data) ==
    IF data.agent_name # "" \/ data.stockbroker_code # ""
    THEN << Section("Distribution Agent",
              Field("Agent Name", data.agent_name)
                \o Field("Stockbroker Code", data.stockbroker_code)) >>
    ELSE <<>>

\* the section keyed on the witness data instead of on the flag alone
WitnessSection_OnData(data) ==
    IF data.needs_witness \/ data.witness_name # ""
    THEN << Section("Witness",
              Field("Witness Name", data.witness_name)
                \o Field("Witness Address", data.witness_address)) >>
    ELSE <<>>

WitnessSection(data) ==
    IF data.needs_witness
    THEN << Section("Witness",
              Field("Witness Name", data.witness_name)
                \o Field("Witness Address", data.witness_address)) >>
    ELSE <<>>

\* ReviewStep: the sections of the review page, top to bottom
ReviewStep(data) ==
    BondDetailsSection(data)
      \o ApplicantSection(data)
      \o JointApplicantSection(data)
      \o BankSection(data)
      \o JointBankSection(data)
      \o ClassificationSection(data)
      \o DistributionAgentSection(data)
      \o WitnessSection(data)

\* ApplicationDetailModal's InfoRow: always a row, '-' for an empty value
InfoRow(label, value) ==
    << [label |-> label, value |-> IF value = "" THEN "-" ELSE value] >>

\* ApplicationDetailModal: the "Applicant Info" card
ApplicantInfoCard(app) ==
    Section("Applicant Info",
      InfoRow("Type", app.applicant_type)
        \o ( IF app.applicant_type = "Corporate"
             THEN InfoRow("Company", app.company_name)
                    \o InfoRow("RC Number", app.rc_number)
                    \o InfoRow("Contact", app.contact_person)
                    \o InfoRow("Email", app.corp_email)
             ELSE InfoRow("Name", app.full_name)
                    \o InfoRow("Email", app.email)
                    \o InfoRow("Phone", app.phone_number)
                    \o InfoRow("BVN", app.bvn) ))

\* FormWizard.renderStep: the sections on screen; the input steps show inputs,
\* not sections
renderStep(step, data) ==
    IF step = 6 THEN ReviewStep(data) ELSE <<>>

(***************************************************************************)
(* The wizard: Init and the user's actions                                 *)
(***************************************************************************)

NoOp == [op |-> "none", arg |-> 0, before |-> 0, validated |-> FALSE,
         valid |-> FALSE, resolved |-> FALSE]

\* no document is being generated and no primitive has been drawn
PdfIdle ==
    /\ asmState = "Init"
    /\ appData = [applicant_type |-> "Individual", needs_witness |-> FALSE,
                  joint_bank |-> FALSE, tenor |-> {}]
    /\ document = <<>>
    /\ output = <<>>
    /\ primIn = [kind |-> "none"]
    /\ primOut = <<>>

\* a state that is null or a value v is <<>> or <<v>>
null == <<>>

\* nothing has been submitted: the FormWizard is mounted and idle
SubmitIdle ==
    /\ declarationAccepted = FALSE
    /\ isSubmitting = FALSE
    /\ submitError = null
    /\ submitCall = <<>>
    /\ submittedId = null
    /\ submitResponse = null

\* SubscriptionForm renders the FormWizard unless an application was submitted
Mounted == submittedId = null

\* no application is selected on the dashboard: the modal's state is the
\* initial one and nothing is fetched; the server holds no payment
ModalClosed ==
    /\ application = null
    /\ payment = null
    /\ documents = <<>>
    /\ modalIsLoading = TRUE
    /\ modalError = null
    /\ showPaymentForm = FALSE
    /\ modalIsSubmitting = FALSE
    /\ showRejectDialog = FALSE
    /\ rejectionReason = ""
    /\ fetchCall = "none"
    /\ mutationCall = null
    /\ srvPayment = null
    /\ srvDocuments = <<>>

\* DocumentUpload as mounted, no file handled
UploadIdle ==
    /\ uploadError = null
    /\ isUploading = FALSE
    /\ uploads = <<>>

\* useAuth before its mount effect, nothing stored
AuthIdle ==
    /\ token = null
    /\ user = null
    /\ authIsLoading = TRUE
    /\ authCalls = <<>>
    /\ loginError = ""
    /\ loggedOut = FALSE

\* no function of lib/utils.ts has been called
LibIdle == libCall = null

\* the applications list of the AdminDashboard before its first effect
ListIdle ==
    /\ filters = [ page |-> 1, search |-> "" ]
    /\ totalPages = 1
    /\ applications = null
    /\ listIsLoading = TRUE
    /\ listCalls = <<>>
    /\ searchClick = null

\* the reports tab of the AdminDashboard before it is opened
ReportIdle ==
    /\ reportPeriod = [ month |-> "January", year |-> 2026 ]
    /\ reportSummary = null
    /\ submissions = {}
    /\ isLoadingReport = FALSE
    /\ reportCalls = <<>>
    /\ markCalls = <<>>
    /\ srvSubmitted = {}

DashboardIdle == ListIdle /\ ReportIdle

AdminIdle == ModalClosed /\ UploadIdle /\ AuthIdle /\ LibIdle /\ DashboardIdle

Init ==
    /\ form = defaultValues
    /\ currentStep = 0
    /\ renderedStep = 0
    /\ hasValidator = TRUE
    /\ pending = <<>>
    /\ canProceed = TRUE
    /\ lastOp = NoOp
    /\ PdfIdle
    /\ SubmitIdle
    /\ AdminIdle

\* a registered input that is on screen takes the value v
SetValue(f, v) ==
    /\ Mounted
    /\ f \in VisibleInputs(currentStep, form)
    /\ v \in InputValues(f)
    /\ v # form[f]
    /\ form' = [form EXCEPT ![f] = v]
    /\ UNCHANGED <<currentStep, renderedStep, hookVars, pdfVars, adminVars, submitVars>>

\* typing into (or choosing from) a text input that is on screen
TypeText(f, v) ==
    /\ f \in EditableFields
    /\ SetValue(f, v)

\* ApplicantTypeStep: one button per type, field.onChange(type.value)
SelectApplicantType(t) ==
    /\ Mounted
    /\ currentStep = 1
    /\ t # form.applicant_type
    /\ form' = [form EXCEPT !.applicant_type = t]
    /\ UNCHANGED <<currentStep, renderedStep, hookVars, pdfVars, adminVars, submitVars>>

\* DistributionStep: the "I need a witness" checkbox
ToggleNeedsWitness ==
    /\ Mounted
    /\ currentStep = 5
    /\ form' = [form EXCEPT !.needs_witness = ~form.needs_witness]
    /\ UNCHANGED <<currentStep, renderedStep, hookVars, pdfVars, adminVars, submitVars>>

\* the Next button (shown on every step but the last): wizard.nextStep with
\* FormWizard's validateStep, followed by the re-render
ClickNext ==
    /\ Mounted
    /\ ~isLastStep
    /\ currentStep' = nextStepResult(currentStep, currentStep, TRUE,
                                     validateStep(currentStep, form))
    /\ renderedStep' = currentStep'
    /\ UNCHANGED <<form, hookVars, pdfVars, adminVars, submitVars>>

\* the Previous button (disabled on the first step): wizard.prevStep; away
\* from the last step the ReviewStep and its declaration checkbox are unmounted
ClickPrevious ==
    /\ Mounted
    /\ ~isFirstStep
    /\ currentStep' = prevStepResult(currentStep, currentStep)
    /\ renderedStep' = currentStep'
    /\ declarationAccepted' = FALSE
    /\ UNCHANGED <<form, hookVars, pdfVars, adminVars, isSubmitting, submitError,
                   submitCall, submittedId, submitResponse>>

\* BondDetailsStep: typing text into the CurrencyInput of the amount
TypeAmount(text) ==
    /\ Mounted
    /\ currentStep = 0
    /\ form' = handleBondValueChange(form, handleChange(text))
    /\ form' # form
    /\ UNCHANGED <<currentStep, renderedStep, hookVars, pdfVars, adminVars, submitVars>>

\* ClassificationStep: ticking or unticking one investor category
ToggleInvestorCategory(c) ==
    /\ Mounted
    /\ currentStep = 4
    /\ form' = [form EXCEPT !.investor_category =
                   CheckboxGroupChange(@, c, \A i \in 1..Len(@) : @[i] # c)]
    /\ UNCHANGED <<currentStep, renderedStep, hookVars, pdfVars, adminVars, submitVars>>

\* ReviewStep: the declaration checkbox
ToggleDeclaration ==
    /\ Mounted
    /\ currentStep = 6
    /\ declarationAccepted' = ~declarationAccepted
    /\ UNCHANGED <<form, currentStep, renderedStep, hookVars, pdfVars, adminVars,
                   isSubmitting, submitError, submitCall, submittedId,
                   submitResponse>>

\* the Submit Application button (shown on the last step, disabled while
\* isSubmitting): handleSubmit up to `await publicApi.submitApplication(data)`;
\* the call is recorded with the data it sends and with the state of the
\* declaration checkbox at the click
ClickSubmit ==
    /\ Mounted
    /\ isLastStep
    /\ ~isSubmitting
    /\ isSubmitting' = TRUE
    /\ submitError' = null
    /\ submitCall' = Append(submitCall,
                            [ data |-> form,
                              declarationAccepted |-> declarationAccepted ])
    /\ UNCHANGED <<form, currentStep, renderedStep, hookVars, pdfVars, adminVars,
                   declarationAccepted, submittedId, submitResponse>>

\* submitApplication resolves with the id of the new application: onSuccess
\* shows the success page in place of the FormWizard, whose state is gone; a
\* later mount starts from the default values
SubmitResolves(id) ==
    /\ submitCall # <<>>
    /\ submitResponse' = << [ ok |-> TRUE, id |-> id ] >>
    /\ submittedId' = <<id>>
    /\ submitCall' = Tail(submitCall)
    /\ isSubmitting' = FALSE
    /\ form' = defaultValues
    /\ currentStep' = 0
    /\ renderedStep' = 0
    /\ declarationAccepted' = FALSE
    /\ UNCHANGED <<hookVars, pdfVars, adminVars, submitError>>

\* SubmitRejects that hands an id to onSuccess all the same
SubmitRejects_OnSuccess ==
    /\ submitCall # <<>>
    /\ submitResponse' = << [ ok |-> FALSE, id |-> 0 ] >>
    /\ submitError' = <<"Failed to submit application. Please try again.">>
    /\ submitCall' = Tail(submitCall)
    /\ isSubmitting' = FALSE
    /\ submittedId' = << 0 >>
    /\ UNCHANGED <<form, currentStep, renderedStep, hookVars, pdfVars, adminVars,
                   declarationAccepted>>

\* submitApplication rejects: the error is shown and the wizard stays
SubmitRejects ==
    /\ submitCall # <<>>
    /\ submitResponse' = << [ ok |-> FALSE, id |-> 0 ] >>
    /\ submitError' = <<"Failed to submit application. Please try again.">>
    /\ submitCall' = Tail(submitCall)
    /\ isSubmitting' = FALSE
    /\ UNCHANGED <<form, currentStep, renderedStep, hookVars, pdfVars, adminVars,
                   declarationAccepted, submittedId>>

\* SubscriptionForm.handleNewApplication: back from the success page to a
\* fresh FormWizard
handleNewApplication ==
    /\ submittedId # null
    /\ submittedId' = null
    /\ UNCHANGED <<form, currentStep, renderedStep, hookVars, pdfVars, adminVars,
                   declarationAccepted, isSubmitting, submitError, submitCall,
                   submitResponse>>

Next ==
    \/ \E f \in EditableFields : \E v \in InputValues(f) : TypeText(f, v)
    \/ \E t \in ApplicantTypes : SelectApplicantType(t)
    \/ ToggleNeedsWitness
    \/ ClickNext
    \/ ClickPrevious

Spec == Init /\ [][Next]_vars

\* the titles of the sections on screen
Titles(sections) == { sections[i].title : i \in 1..Len(sections) }
\* the labels of the rows of the sections with the given titles
Labels(sections, titles) ==
    UNION { { sections[i].fields[j].label : j \in 1..Len(sections[i].fields) } :
            i \in { k \in 1..Len(sections) : sections[k].title \in titles } }
\* how many of the sections on screen carry one of the given titles
Count(sections, titles) ==
    Cardinality({ i \in 1..Len(sections) : sections[i].title \in titles })

(***************************************************************************)
(* The review page (C1, C2, C9, C10)                                       *)
(***************************************************************************)

\* the sections of the rendered application: what is on screen at the review
\* step
Rendered == renderStep(currentStep, form)

\* C1: the Witness section is in the rendered application iff needs_witness is
\* true (once, never blank in its place), whatever witness_name and
\* witness_address hold; the witness inputs of the Distribution step are on
\* screen iff the flag is true as well.
C1_WitnessIffFlag ==
    /\ currentStep = 6 =>
         /\ ("Witness" \in Titles(Rendered)) <=> form.needs_witness
         /\ Count(Rendered, {"Witness"}) = IF form.needs_witness THEN 1 ELSE 0
    /\ currentStep = 5 =>
         /\ form.needs_witness => WitnessInputs \subseteq VisibleInputs(5, form)
         /\ ~form.needs_witness => WitnessInputs \cap VisibleInputs(5, form) = {}

\* the review page of an application whose flag is off while a witness name is
\* still held
C1_Witness ==
    /\ currentStep = 6
    /\ ~form.needs_witness
    /\ form.witness_name # ""
    /\ "Witness" \notin Titles(Rendered)

IdentityTitles ==
    { "Company Information", "Applicant Information",
      "Joint Applicant Information" }

\* C2: the identity sections of a Corporate application never show full name,
\* date of birth or next of kin, and those of an Individual or Joint
\* application never show company name or RC number, whatever else the data
\* holds; the same for the Applicant Info card of the admin modal.
C2_VariantBranching ==
    /\ currentStep = 6 =>
         IF form.applicant_type = "Corporate"
         THEN /\ Labels(Rendered, IdentityTitles)
                   \cap {"Full Name", "Date of Birth", "Next of Kin"} = {}
              /\ Titles(Rendered) \cap IdentityTitles = {"Company Information"}
         ELSE /\ Labels(Rendered, IdentityTitles)
                   \cap {"Company Name", "RC Number"} = {}
              /\ "Company Information" \notin Titles(Rendered)
    /\ LET rows == Labels(<<ApplicantInfoCard(form)>>, {"Applicant Info"})
       IN  IF form.applicant_type = "Corporate"
           THEN "Name" \notin rows
           ELSE rows \cap {"Company", "RC Number"} = {}

\* the review page of a Corporate application that still holds personal data
C2_Witness ==
    /\ currentStep = 6
    /\ form.applicant_type = "Corporate"
    /\ form.full_name # "" /\ form.date_of_birth # "" /\ form.next_of_kin # ""
    /\ form.company_name # ""
    /\ "Company Name" \in Labels(Rendered, IdentityTitles)

\* C9: the Distribution Agent section is in the rendered application for every
\* application, also when agent_name and stockbroker_code are both absent.
C9_AgentSectionAlwaysPresent ==
    currentStep = 6 => "Distribution Agent" \in Titles(Rendered)

\* secondary bank data: any of the joint_bank_* values
SecondaryBankDataPresent(data) ==
    \E f \in JointBankInputs : data[f] # ""

\* C10: the bank-details section is rendered exactly once, and the secondary
\* one exactly when the applicant type is Joint and secondary bank data is
\* present.
C10_BankSections ==
    currentStep = 6 =>
      /\ Count(Rendered, {"Bank Details", "Primary Applicant's Bank Details"}) = 1
      /\ Count(Rendered, {"Joint Applicant's Bank Details"}) =
           IF form.applicant_type = "Joint" /\ SecondaryBankDataPresent(form)
           THEN 1 ELSE 0

(***************************************************************************)
(* What the wizard lets past a step (C11, C12, C13, C14)                   *)
(***************************************************************************)

\* C11: the wizard is past the Applicant Info step only with every required
\* identity field of the selected applicant type present (Individual: title,
\* full name, date of birth, phone, email, next of kin, address; Joint: those
\* and the joint_ ones; Corporate: company name, RC number, business type,
\* contact person, phone, email).
C11_IdentityRequired ==
    currentStep > 2 => \A f \in fieldsToValidate(2, form) : form[f] # ""

\* how many of INVESTOR_CATEGORIES the model offers
MaxCategories == 2

Categories == { INVESTOR_CATEGORIES[i] : i \in 1..MaxCategories }

\* the text inputs typed into where the amounts, numbers and categories are
\* entered
EntryFields ==
    { "bank_name", "account_number", "bvn", "joint_account_number", "joint_bvn" }

NextEntry ==
    \/ \E text \in AmountTexts : TypeAmount(text)
    \/ \E t \in ApplicantTypes : SelectApplicantType(t)
    \/ \E f \in EntryFields : \E v \in InputValues(f) : SetValue(f, v)
    \/ \E c \in Categories : ToggleInvestorCategory(c)
    \/ ClickNext
    \/ ClickPrevious

SpecEntry == Init /\ [][NextEntry]_vars

\* C12: an application that is past the Classification step has at least one
\* and at most ten investor categories selected.
C12_CategoriesSelected ==
    currentStep > 4 =>
      /\ Len(form.investor_category) >= 1
      /\ Len(form.investor_category) <= Len(INVESTOR_CATEGORIES)

\* C13: the wizard is past the Bank Details step only with account_number of
\* exactly 10 digits and bvn empty or of exactly 11 digits, and for a Joint
\* application the same of joint_account_number and joint_bvn.
C13_BankNumbersValid ==
    currentStep > 3 =>
      /\ accountNumberRegex(form.account_number)
      /\ form.bvn = "" \/ bvnRegex(form.bvn)
      /\ form.applicant_type = "Joint" =>
           /\ accountNumberRegex(form.joint_account_number)
           /\ form.joint_bvn = "" \/ bvnRegex(form.joint_bvn)

\* C14: the wizard is past the Bond Details step (and so at the Review step)
\* only with 5,000 <= bond_value <= 50,000,000, both bounds accepted.
C14_BondValueInRange ==
    currentStep > 0 =>
      /\ form.bond_value >= BOND_VALUE_MIN
      /\ form.bond_value <= BOND_VALUE_MAX

\* the review page of an application for the largest amount, typed in
C14_Witness ==
    /\ currentStep = 6
    /\ form.bond_value = handleChange(<< "5", "0", "0", "0", "0", "0", "0", "0" >>)
    /\ form.bond_value = BOND_VALUE_MAX
    /\ form.amount_in_words = "Fifty Million Naira"

\* C23: in every state of the wizard form amount_in_words equals
\* formatMoneyInWords(bond_value) when bond_value > 0 and is empty when
\* bond_value is 0, for the default values and after every change of the
\* bond value
C23_AmountInWordsInSync ==
    form.amount_in_words =
        IF form.bond_value > 0 THEN formatMoneyInWords(form.bond_value, 0) ELSE ""

\* the amount has been typed: cleared to 0, or set to 25,000
C23_Witness ==
    /\ form # defaultValues
    /\ \/ form.bond_value = 0 /\ form.amount_in_words = ""
       \/ /\ form.bond_value = 25000
          /\ form.amount_in_words = "Twenty Five Thousand Naira"

(***************************************************************************)
(* Submission (C15, C16)                                                   *)
(***************************************************************************)

\* the text inputs typed into on the way to a submission
SubmitFields == { "bank_name", "account_number", "witness_name", "witness_address" }

\* the ids the server gives to new applications
ApplicationIds == { 1 }

NextSubmit ==
    \/ \E f \in SubmitFields : \E v \in InputValues(f) : SetValue(f, v)
    \/ ToggleNeedsWitness
    \/ ToggleDeclaration
    \/ ClickNext
    \/ ClickPrevious
    \/ ClickSubmit
    \/ \E id \in ApplicationIds : SubmitResolves(id)
    \/ SubmitRejects
    \/ handleNewApplication

SpecSubmit == Init /\ [][NextSubmit]_vars

\* C15: in every submitted application witness_name and witness_address are
\* populated if and only if needs_witness is true, also after the box was
\* ticked, the fields filled and the box unticked again.
C15_SubmittedWitnessIffFlag ==
    \A i \in 1..Len(submitCall) :
      LET data == submitCall[i].data
      IN  IF data.needs_witness
          THEN data.witness_name # "" /\ data.witness_address # ""
          ELSE data.witness_name = "" /\ data.witness_address = ""

\* C16: submitApplication is called only with the declaration checkbox of the
\* Review step accepted.
C16_DeclarationAccepted ==
    \A i \in 1..Len(submitCall) : submitCall[i].declarationAccepted

\* a step in which a handleSubmit call comes back from its await
SubmitFinishes == Len(submitCall') < Len(submitCall)

\* C30: if submitApplication fails, onSuccess is not called, an error message
\* is shown, isSubmitting returns to false and the wizard stays on its step
\* with every form value unchanged; onSuccess is called once for each
\* successful submission, with the id the server returned, and at no other time
C30_FailedSubmitKeepsWizard ==
    [][ IF SubmitFinishes
        THEN /\ isSubmitting' = FALSE
             /\ submitResponse' # null
             /\ IF submitResponse'[1].ok
                THEN submittedId' = << submitResponse'[1].id >>
                ELSE /\ submittedId' = submittedId
                     /\ submitError' # null
                     /\ form' = form
                     /\ currentStep' = currentStep
        ELSE submittedId' = submittedId \/ submittedId' = null ]_vars

\* a submission has failed: the wizard is on the Review step with the values
\* entered, the error shown and the Submit button enabled again
C30_Witness ==
    /\ submitResponse # null /\ ~submitResponse[1].ok
    /\ Mounted /\ isLastStep
    /\ ~isSubmitting /\ submitCall = <<>>
    /\ submitError # null
    /\ form.bank_name # "" /\ form.account_number # ""

(***************************************************************************)
(* useFormWizard on its own, one call at a time                            *)
(***************************************************************************)

\* how far outside 0..totalSteps-1 the argument of goToStep ranges
MaxJump == 2

GoToArgs == (0 - MaxJump)..(totalSteps - 1 + MaxJump)

\* the last call has run to its end and the hook has re-rendered
Settled == pending = <<>> /\ renderedStep = currentStep

InitHook ==
    /\ form = defaultValues
    /\ currentStep = 0
    /\ renderedStep = 0
    /\ hasValidator \in BOOLEAN
    /\ pending = <<>>
    /\ canProceed = TRUE
    /\ lastOp = NoOp
    /\ PdfIdle
    /\ SubmitIdle
    /\ AdminIdle

\* goToStep(k)
goToStep(k) ==
    /\ currentStep' = goToStepResult(k, currentStep)
    /\ lastOp' = [NoOp EXCEPT !.op = "goToStep", !.arg = k,
                              !.before = currentStep, !.resolved = TRUE]
    /\ UNCHANGED <<form, renderedStep, hasValidator, pending, canProceed, pdfVars, adminVars, submitVars>>

\* nextStep up to its await: with a validator and past the guard it calls
\* validateStep(currentStep) and suspends, else it runs to its end
nextStep ==
    LET c == renderedStep
        validated == nextStepGuard(c) /\ hasValidator
    IN  /\ IF validated
           THEN /\ pending' = Append(pending, [step |-> c])
                /\ UNCHANGED currentStep
           ELSE /\ currentStep' = nextStepResult(c, currentStep, FALSE, TRUE)
                /\ UNCHANGED pending
        /\ lastOp' = [NoOp EXCEPT !.op = "nextStep", !.arg = c,
                                  !.before = currentStep,
                                  !.validated = validated,
                                  !.resolved = ~validated]
        /\ UNCHANGED <<form, renderedStep, hasValidator, canProceed, pdfVars, adminVars, submitVars>>

\* validateStep resolves to isValid and the suspended nextStep continues
nextStepResume(isValid) ==
    /\ pending # <<>>
    /\ currentStep' = nextStepResult(Head(pending).step, currentStep, TRUE, isValid)
    /\ pending' = Tail(pending)
    /\ lastOp' = [lastOp EXCEPT !.valid = isValid, !.resolved = TRUE]
    /\ UNCHANGED <<form, renderedStep, hasValidator, canProceed, pdfVars, adminVars, submitVars>>

\* prevStep
prevStep ==
    /\ currentStep' = prevStepResult(renderedStep, currentStep)
    /\ lastOp' = [NoOp EXCEPT !.op = "prevStep", !.arg = renderedStep,
                              !.before = currentStep, !.resolved = TRUE]
    /\ UNCHANGED <<form, renderedStep, hasValidator, pending, canProceed, pdfVars, adminVars, submitVars>>

\* setCanProceed(value)
setCanProceed(value) ==
    /\ value # canProceed
    /\ canProceed' = value
    /\ UNCHANGED <<form, currentStep, renderedStep, hasValidator, pending,
                   lastOp, pdfVars, adminVars, submitVars>>

\* React re-renders the hook: the callbacks now close over the new state
Rerender ==
    /\ renderedStep # currentStep
    /\ renderedStep' = currentStep
    /\ UNCHANGED <<form, currentStep, hookVars, pdfVars, adminVars, submitVars>>

\* the calls of a caller that lets each call finish and the hook re-render
\* before it makes the next one
CallGoToStep(k) == Settled /\ goToStep(k)
CallNextStep == Settled /\ nextStep
CallPrevStep == Settled /\ prevStep
CallSetCanProceed(value) == Settled /\ setCanProceed(value)

NextHook ==
    \/ \E k \in GoToArgs : CallGoToStep(k)
    \/ CallNextStep
    \/ \E isValid \in BOOLEAN : nextStepResume(isValid)
    \/ CallPrevStep
    \/ \E value \in BOOLEAN : CallSetCanProceed(value)
    \/ Rerender

SpecHook == InitHook /\ [][NextHook]_vars

\* C3: with one call at a time, 0 <= currentStep <= totalSteps - 1 always, and
\* prevStep at step 0, nextStep at the last step and goToStep(k) with k outside
\* 0..totalSteps-1 leave currentStep as it was.
C3_StepInRange ==
    /\ currentStep >= 0 /\ currentStep <= totalSteps - 1
    /\ (lastOp.op = "prevStep" /\ lastOp.before = 0) => currentStep = 0
    /\ (lastOp.op = "nextStep" /\ lastOp.before = totalSteps - 1)
         => currentStep = totalSteps - 1
    /\ (lastOp.op = "goToStep" /\ (lastOp.arg < 0 \/ lastOp.arg > totalSteps - 1))
         => currentStep = lastOp.before

\* goToStep with an argument past the last step, called away from step 0
C3_Witness ==
    /\ lastOp.op = "goToStep"
    /\ lastOp.arg > totalSteps - 1
    /\ lastOp.before = 3
    /\ currentStep = 3

\* C4: with a validateStep callback, nextStep calls it with the index of the
\* current step, and currentStep grows by exactly one if that call resolves to
\* true and stays as it was if it resolves to false (and until it resolves).
C4_NextStepValidates ==
    (hasValidator /\ lastOp.op = "nextStep") =>
      /\ lastOp.before < totalSteps - 1 => lastOp.validated
      /\ lastOp.validated =>
           /\ lastOp.arg = lastOp.before
           /\ ~lastOp.resolved => pending = <<[step |-> lastOp.before]>>
      /\ currentStep =
           IF lastOp.validated /\ lastOp.resolved /\ lastOp.valid
           THEN lastOp.before + 1 ELSE lastOp.before

\* a nextStep away from step 0 whose validation has resolved to true
C4_Witness ==
    /\ hasValidator
    /\ lastOp.op = "nextStep" /\ lastOp.validated
    /\ lastOp.resolved /\ lastOp.valid
    /\ lastOp.before = 2 /\ currentStep = 3

(***************************************************************************)
(* useFormWizard with calls that overlap (C25)                             *)
(***************************************************************************)

\* how many nextStep calls wait for their validation at a time, and how far
\* outside 0..totalSteps-1 currentStep is followed
MaxPending == 2
MaxDrift == 2

\* nextStep called whatever else is going on: Next is clicked again while
\* an earlier validateStep has not resolved, or before a re-render
RaceNextStep ==
    /\ Len(pending) < MaxPending
    /\ currentStep < totalSteps - 1 + MaxDrift
    /\ nextStep

\* the validation of the oldest waiting nextStep resolves
RaceNextStepResume(isValid) ==
    /\ currentStep < totalSteps - 1 + MaxDrift
    /\ nextStepResume(isValid)

\* prevStep called whatever else is going on
RacePrevStep ==
    /\ currentStep > 0 - MaxDrift
    /\ prevStep

NextHookRace ==
    \/ RaceNextStep
    \/ \E isValid \in BOOLEAN : RaceNextStepResume(isValid)
    \/ RacePrevStep
    \/ Rerender

SpecHookRace == InitHook /\ [][NextHookRace]_vars

\* C25: 0 <= currentStep <= totalSteps - 1 also holds when nextStep or
\* prevStep is called again before an earlier nextStep has resolved its
\* validation or before the hook has re-rendered
C25_StepInRangeOverlapping ==
    currentStep >= 0 /\ currentStep <= totalSteps - 1

(***************************************************************************)
(* Single-select groups and fixed-width fields                             *)
(***************************************************************************)

\* TENORS, and the options of the residency RadioGroup of ClassificationStep
TENORS == << "2-Year", "3-Year" >>
ResidencyOptions == << "true", "false" >>

\* a RadioGroup value prop that was left out
undefined == "undefined"

\* RadioGroup with a first option that is checked while no value is given
RadioGroup_DefaultFirst(options, value) ==
    [ i \in 1..Len(options) |->
        [ option |-> options[i],
          checked |-> (value = options[i]) \/ (value = undefined /\ i = 1) ] ]

\* RadioGroup: one radio input per option, checked={value === option.value}
RadioGroup(options, value) ==
    [ i \in 1..Len(options) |->
        [ option |-> options[i], checked |-> (value = options[i]) ] ]

\* CheckboxGroup(options, selected, mode): one CheckboxField per option; in
\* single mode only the first selected option, in option order, is checked
CheckboxGroup(options, selected, mode) ==
    [ i \in 1..Len(options) |->
        [ option |-> options[i],
          checked |->
            /\ options[i] \in selected
            /\ mode = "single" => \A j \in 1..(i - 1) : options[j] \notin selected ] ]

\* the content of a box without a character
EmptyCell == " "

\* FixedWidthField that grows with its value instead of dropping characters
FixedWidthField_Reflow(value, cellCount) ==
    IF Len(value) >= cellCount THEN value
    ELSE value \o [ i \in 1..(cellCount - Len(value)) |-> EmptyCell ]

\* FixedWidthField(value, cellCount): cellCount boxes, one character per box,
\* left to right; what does not fit is dropped, what is left stays empty
FixedWidthField(value, cellCount) ==
    IF Len(value) >= cellCount THEN SubSeq(value, 1, cellCount)
    ELSE value \o [ i \in 1..(cellCount - Len(value)) |-> EmptyCell ]

(***************************************************************************)
(* The document generation engine                                          *)
(***************************************************************************)

\* the longest value handed to a FixedWidthField, and the largest cell count
MaxValueLen == 3
MaxCells == 2
\* the generation timestamps that can end up in the footer
MaxTimestamp == 2

Chars == { "0", "1" }
Values == UNION { [ 1..n -> Chars ] : n \in 0..MaxValueLen }

\* the option lists a group is drawn for
OptionLists == { TENORS, ResidencyOptions, << "a", "b", "c" >> }
Range(seq) == { seq[i] : i \in 1..Len(seq) }

\* the application records handed to generate()
ApplicationData ==
    [ applicant_type : ApplicantTypes,
      needs_witness : BOOLEAN,
      joint_bank : BOOLEAN,
      tenor : SUBSET Range(TENORS) ]

\* the section builders, in the Assembler's fixed order; the witness section
\* only with the witness flag, the secondary bank block only for Joint with
\* secondary bank data
BuildSections(data) ==
    << [ section |-> "bond terms",
         content |-> CheckboxGroup(TENORS, data.tenor, "single") ] >>
      \o << [ section |-> "applicant identity",
              content |-> IF data.applicant_type = "Corporate"
                          THEN << "company" >>
                          ELSE IF data.applicant_type = "Joint"
                          THEN << "personal", "secondary personal" >>
                          ELSE << "personal" >> ] >>
      \o << [ section |-> "bank details",
              content |-> IF data.applicant_type = "Joint" /\ data.joint_bank
                          THEN << "primary", "secondary" >>
                          ELSE << "primary" >> ] >>
      \o << [ section |-> "classification", content |-> <<>> ] >>
      \o << [ section |-> "distribution agent", content |-> <<>> ] >>
      \o ( IF data.needs_witness
           THEN << [ section |-> "witness", content |-> <<>> ] >>
           ELSE <<>> )
      \o << [ section |-> "signatures", content |-> <<>> ] >>

InitPdf ==
    /\ form = defaultValues
    /\ currentStep = 0
    /\ renderedStep = 0
    /\ hasValidator = TRUE
    /\ pending = <<>>
    /\ canProceed = TRUE
    /\ lastOp = NoOp
    /\ asmState = "Init"
    /\ appData \in ApplicationData
    /\ document = <<>>
    /\ output = <<>>
    /\ primIn = [kind |-> "none"]
    /\ primOut = <<>>
    /\ SubmitIdle
    /\ AdminIdle

wizardVars == <<form, currentStep, renderedStep, hookVars>>

\* Init -> HeaderEmitted: the document header, unconditionally
EmitHeader ==
    /\ asmState = "Init"
    /\ asmState' = "HeaderEmitted"
    /\ document' = << [ section |-> "header", content |-> <<>> ] >>
    /\ UNCHANGED <<wizardVars, submitVars, adminVars, appData, output, primIn, primOut>>

\* HeaderEmitted -> SectionsEmitted: the section builders in fixed order
EmitSections ==
    /\ asmState = "HeaderEmitted"
    /\ asmState' = "SectionsEmitted"
    /\ document' = document \o BuildSections(appData)
    /\ UNCHANGED <<wizardVars, submitVars, adminVars, appData, output, primIn, primOut>>

\* pagination that does not wait for the sections
Paginate_Early(ts) ==
    /\ asmState \in { "HeaderEmitted", "SectionsEmitted" }
    /\ asmState' = "Paginated"
    /\ document' = Append(document, [ section |-> "footer", content |-> ts ])
    /\ UNCHANGED <<wizardVars, submitVars, adminVars, appData, output, primIn, primOut>>

\* SectionsEmitted -> Paginated: layout, and the footer with the generation
\* timestamp
Paginate(ts) ==
    /\ asmState = "SectionsEmitted"
    /\ asmState' = "Paginated"
    /\ document' = Append(document, [ section |-> "footer", content |-> ts ])
    /\ UNCHANGED <<wizardVars, submitVars, adminVars, appData, output, primIn, primOut>>

\* Paginated -> Finalized: the byte stream is extracted and the document
\* object discarded
Finalize ==
    /\ asmState = "Paginated"
    /\ asmState' = "Finalized"
    /\ output' = document
    /\ document' = <<>>
    /\ UNCHANGED <<wizardVars, submitVars, adminVars, appData, primIn, primOut>>

\* a FixedWidthField is drawn (a run follows one primitive)
DrawFixedWidthField(value, cellCount) ==
    /\ primIn.kind = "none"
    /\ primIn' = [ kind |-> "FixedWidthField", value |-> value,
                   cellCount |-> cellCount ]
    /\ primOut' = FixedWidthField(value, cellCount)
    /\ UNCHANGED <<wizardVars, submitVars, adminVars, asmState, appData, document, output>>

\* a CheckboxGroup is drawn
DrawCheckboxGroup(options, selected, mode) ==
    /\ primIn.kind = "none"
    /\ primIn' = [ kind |-> "CheckboxGroup", options |-> options,
                   selected |-> selected, mode |-> mode ]
    /\ primOut' = CheckboxGroup(options, selected, mode)
    /\ UNCHANGED <<wizardVars, submitVars, adminVars, asmState, appData, document, output>>

\* a RadioGroup of the web form is rendered
RenderRadioGroup(options, value) ==
    /\ primIn.kind = "none"
    /\ primIn' = [ kind |-> "RadioGroup", options |-> options, value |-> value ]
    /\ primOut' = RadioGroup(options, value)
    /\ UNCHANGED <<wizardVars, submitVars, adminVars, asmState, appData, document, output>>

NextPdf ==
    \/ EmitHeader
    \/ EmitSections
    \/ \E ts \in 1..MaxTimestamp : Paginate(ts)
    \/ Finalize
    \/ \E value \in Values : \E cellCount \in 0..MaxCells :
         DrawFixedWidthField(value, cellCount)
    \/ \E options \in OptionLists : \E selected \in SUBSET Range(options) :
         \E mode \in { "single", "multi" } :
           DrawCheckboxGroup(options, selected, mode)
    \/ \E options \in OptionLists :
         \E value \in Range(options) \cup { undefined, "other" } :
           RenderRadioGroup(options, value)

SpecPdf == InitPdf /\ [][NextPdf]_vars

\* the positions of the checked boxes of a drawn group
Checked(group) == { i \in 1..Len(group) : group[i].checked }

\* C5: the Template Assembler only moves Init -> HeaderEmitted ->
\* SectionsEmitted -> Paginated -> Finalized, one state at a time; nothing
\* leaves Finalized.
C5_AssemblerOrder ==
    [][ asmState' # asmState =>
          <<asmState, asmState'>> \in
            { <<"Init", "HeaderEmitted">>,
              <<"HeaderEmitted", "SectionsEmitted">>,
              <<"SectionsEmitted", "Paginated">>,
              <<"Paginated", "Finalized">> } ]_vars

\* a generation that has run to its end
C5_Witness ==
    /\ asmState = "Finalized"
    /\ Len(output) >= 8
    /\ output[1].section = "header"
    /\ output[Len(output)].section = "footer"

\* C7: a single-select group draws as checked the first selected option in
\* option order when several are selected, exactly the selected option when
\* one is, and none when none is; a RadioGroup checks exactly the option its
\* value names and none without a value.
C7_SingleSelect ==
    /\ (primIn.kind = "CheckboxGroup" /\ primIn.mode = "single") =>
         LET sel == { i \in 1..Len(primIn.options) :
                        primIn.options[i] \in primIn.selected }
         IN  IF sel = {} THEN Checked(primOut) = {}
             ELSE Checked(primOut) = { CHOOSE i \in sel : \A j \in sel : i <= j }
    /\ primIn.kind = "RadioGroup" =>
         LET sel == { i \in 1..Len(primIn.options) :
                        primIn.options[i] = primIn.value }
         IN  /\ Checked(primOut) = sel
             /\ Cardinality(Checked(primOut)) =
                  IF primIn.value \in Range(primIn.options) THEN 1 ELSE 0

\* a single-select group drawn with every one of its three options selected
C7_Witness ==
    /\ primIn.kind = "CheckboxGroup" /\ primIn.mode = "single"
    /\ Len(primIn.options) = 3
    /\ primIn.selected = Range(primIn.options)
    /\ Checked(primOut) = {1}

\* C8: a fixed-width field with cell count N is drawn with exactly N cells:
\* cell i shows character i of the value up to min(len(value), N), characters
\* beyond N are dropped and the cells after len(value) are empty.
C8_FixedWidth ==
    primIn.kind = "FixedWidthField" =>
      /\ Len(primOut) = primIn.cellCount
      /\ \A i \in 1..primIn.cellCount :
           primOut[i] = IF i <= Len(primIn.value) THEN primIn.value[i]
                        ELSE EmptyCell

\* a field drawn for a value longer than its cell count
C8_Witness ==
    /\ primIn.kind = "FixedWidthField"
    /\ primIn.cellCount = 2
    /\ Len(primIn.value) = 3
    /\ primOut = << primIn.value[1], primIn.value[2] >>

(***************************************************************************)
(* The admin's application detail modal (C17, C18)                         *)
(***************************************************************************)

\* the wizard as mounted, nothing typed and nothing submitted
WizardIdle ==
    /\ form = defaultValues
    /\ currentStep = 0
    /\ renderedStep = 0
    /\ hasValidator = TRUE
    /\ pending = <<>>
    /\ canProceed = TRUE
    /\ lastOp = NoOp
    /\ SubmitIdle

\* a Payment record, as far as the modal reads it
Payment(status, reason) == [status |-> status, rejection_reason |-> reason]

\* server: the payment_status of an application whose payment is srv (README,
\* Payment Workflow: Pending without a payment, Paid with one that awaits
\* verification, then Verified or Rejected)
ApplicationStatus(srv) ==
    IF srv = null THEN "pending"
    ELSE IF srv[1].status = "pending" THEN "paid"
    ELSE srv[1].status

\* status.charAt(0).toUpperCase() + status.slice(1)
Capitalize(status) ==
    CASE status = "pending" -> "Pending"
      [] status = "paid" -> "Paid"
      [] status = "verified" -> "Verified"
      [] status = "rejected" -> "Rejected"

\* String.prototype.trim on the texts the model types
trim(text) == IF text \in {"", " "} THEN "" ELSE text

\* what the admin types as the rejection reason
ReasonTexts == { "", " ", "duplicate" }

\* the modal shows the application (not the spinner, not the error text)
Shown == ~modalIsLoading /\ modalError = null /\ application # null

\* the payment buttons rendered for the payment p
OfferedActions(p) ==
    IF p.status = "pending" THEN { "verify", "reject", "delete" }
    ELSE IF p.status = "rejected" THEN { "verify", "delete" }
    ELSE {}

\* the badge in the header of the payment section, and the Status field
HeaderBadge == Capitalize(application[1].payment_status)
StatusField == Capitalize(payment[1].status)

\* the modal has been opened for an application: fetchApplicationDetails has
\* been started by the effect and waits for getApplication
InitModal ==
    /\ WizardIdle
    /\ LibIdle
    /\ DashboardIdle
    /\ PdfIdle
    /\ UploadIdle
    /\ AuthIdle
    /\ srvPayment \in { null, << Payment("pending", "") >>,
                        << Payment("verified", "") >>,
                        << Payment("rejected", "duplicate") >> }
    /\ srvDocuments \in IF srvPayment = null THEN { <<>> } ELSE { <<>>, << 1 >> }
    /\ application = null
    /\ payment = null
    /\ documents = <<>>
    /\ modalIsLoading = TRUE
    /\ modalError = null
    /\ showPaymentForm = FALSE
    /\ modalIsSubmitting = FALSE
    /\ showRejectDialog = FALSE
    /\ rejectionReason = ""
    /\ fetchCall = "getApplication"
    /\ mutationCall = null

outsideModal ==
    <<wizardVars, submitVars, pdfVars, uploadVars, authVars, libVars, listVars,
      reportVars>>

\* fetchApplicationDetails: getApplication resolves, getPayment is awaited
GetApplicationResolves ==
    /\ fetchCall = "getApplication"
    /\ application' = << [ payment_status |-> ApplicationStatus(srvPayment) ] >>
    /\ fetchCall' = "getPayment"
    /\ UNCHANGED <<payment, documents, modalIsLoading, modalError,
                   showPaymentForm, modalIsSubmitting, showRejectDialog,
                   rejectionReason, mutationCall, srvPayment, srvDocuments,
                   outsideModal>>

\* fetchApplicationDetails: getApplication rejects
GetApplicationRejects ==
    /\ fetchCall = "getApplication"
    /\ modalError' = << "Failed to load application details" >>
    /\ modalIsLoading' = FALSE
    /\ fetchCall' = "none"
    /\ UNCHANGED <<application, payment, documents, showPaymentForm,
                   modalIsSubmitting, showRejectDialog, rejectionReason,
                   mutationCall, srvPayment, srvDocuments, outsideModal>>

\* fetchApplicationDetails: getPayment resolves, listDocuments is awaited
GetPaymentResolves ==
    /\ fetchCall = "getPayment"
    /\ srvPayment # null
    /\ payment' = srvPayment
    /\ fetchCall' = "listDocuments"
    /\ UNCHANGED <<application, documents, modalIsLoading, modalError,
                   showPaymentForm, modalIsSubmitting, showRejectDialog,
                   rejectionReason, mutationCall, srvPayment, srvDocuments,
                   outsideModal>>

\* fetchApplicationDetails: listDocuments resolves
ListDocumentsResolves ==
    /\ fetchCall = "listDocuments"
    /\ documents' = srvDocuments
    /\ modalIsLoading' = FALSE
    /\ fetchCall' = "none"
    /\ UNCHANGED <<application, payment, modalError, showPaymentForm,
                   modalIsSubmitting, showRejectDialog, rejectionReason,
                   mutationCall, srvPayment, srvDocuments, outsideModal>>

\* fetchApplicationDetails: getPayment (no payment recorded, or any failure)
\* or listDocuments rejects, the inner catch
PaymentFetchRejects ==
    /\ fetchCall \in { "getPayment", "listDocuments" }
    /\ payment' = null
    /\ documents' = <<>>
    /\ modalIsLoading' = FALSE
    /\ fetchCall' = "none"
    /\ UNCHANGED <<application, modalError, showPaymentForm, modalIsSubmitting,
                   showRejectDialog, rejectionReason, mutationCall, srvPayment,
                   srvDocuments, outsideModal>>

\* the Record Payment button, and Cancel in the payment form
SetShowPaymentForm(value) ==
    /\ Shown /\ payment = null
    /\ showPaymentForm # value
    /\ showPaymentForm' = value
    /\ UNCHANGED <<application, payment, documents, modalIsLoading, modalError,
                   modalIsSubmitting, showRejectDialog, rejectionReason,
                   fetchCall, mutationCall, srvPayment, srvDocuments,
                   outsideModal>>

\* a handler sets isSubmitting and awaits its request
StartMutation(call) ==
    /\ ~modalIsSubmitting
    /\ modalIsSubmitting' = TRUE
    /\ mutationCall' = << call >>
    /\ UNCHANGED <<application, payment, documents, modalIsLoading, modalError,
                   showPaymentForm, showRejectDialog, rejectionReason,
                   fetchCall, srvPayment, srvDocuments, outsideModal>>

\* handleRecordPayment up to its await
handleRecordPayment ==
    /\ Shown /\ payment = null /\ showPaymentForm
    /\ StartMutation([ op |-> "record", rejection_reason |-> "" ])

\* handleVerifyPayment up to its await
handleVerifyPayment ==
    /\ Shown /\ payment # null /\ ~showRejectDialog
    /\ "verify" \in OfferedActions(payment[1])
    /\ StartMutation([ op |-> "verify", rejection_reason |-> "" ])

\* the Reject Payment button, and Cancel in the reject dialog
SetShowRejectDialog(value) ==
    /\ Shown /\ payment # null
    /\ showRejectDialog # value
    /\ value => ( "reject" \in OfferedActions(payment[1]) /\ ~modalIsSubmitting )
    /\ showRejectDialog' = value
    /\ UNCHANGED <<application, payment, documents, modalIsLoading, modalError,
                   showPaymentForm, modalIsSubmitting, rejectionReason,
                   fetchCall, mutationCall, srvPayment, srvDocuments,
                   outsideModal>>

\* typing into the Rejection Reason textarea of the dialog
TypeRejectionReason(text) ==
    /\ Shown /\ payment # null /\ showRejectDialog
    /\ text # rejectionReason
    /\ rejectionReason' = text
    /\ UNCHANGED <<application, payment, documents, modalIsLoading, modalError,
                   showPaymentForm, modalIsSubmitting, showRejectDialog,
                   fetchCall, mutationCall, srvPayment, srvDocuments,
                   outsideModal>>

\* handleRejectPayment (Confirm Rejection) up to its await
handleRejectPayment ==
    /\ Shown /\ payment # null /\ showRejectDialog
    /\ trim(rejectionReason) # ""
    /\ StartMutation([ op |-> "reject", rejection_reason |-> rejectionReason ])

\* handleDeletePayment, confirmed, up to its await
handleDeletePayment ==
    /\ Shown /\ payment # null /\ ~showRejectDialog
    /\ "delete" \in OfferedActions(payment[1])
    /\ StartMutation([ op |-> "delete", rejection_reason |-> "" ])

\* recordPayment resolves with the new payment
RecordPaymentResolves ==
    /\ mutationCall # null /\ mutationCall[1].op = "record"
    /\ srvPayment' = << Payment("pending", "") >>
    /\ payment' = srvPayment'
    /\ showPaymentForm' = FALSE
    /\ modalIsSubmitting' = FALSE
    /\ mutationCall' = null
    /\ UNCHANGED <<application, documents, modalIsLoading, modalError,
                   showRejectDialog, rejectionReason, fetchCall, srvDocuments,
                   outsideModal>>

\* verifyPayment with action 'verify' resolves with the updated payment
VerifyPaymentResolves ==
    /\ mutationCall # null /\ mutationCall[1].op = "verify"
    /\ srvPayment # null
    /\ srvPayment' = << Payment("verified", srvPayment[1].rejection_reason) >>
    /\ payment' = srvPayment'
    /\ modalIsSubmitting' = FALSE
    /\ mutationCall' = null
    /\ UNCHANGED <<application, documents, modalIsLoading, modalError,
                   showPaymentForm, showRejectDialog, rejectionReason,
                   fetchCall, srvDocuments, outsideModal>>

\* verifyPayment with action 'reject' resolves with the updated payment
RejectPaymentResolves ==
    /\ mutationCall # null /\ mutationCall[1].op = "reject"
    /\ srvPayment # null
    /\ srvPayment' = << Payment("rejected", mutationCall[1].rejection_reason) >>
    /\ payment' = srvPayment'
    /\ showRejectDialog' = FALSE
    /\ rejectionReason' = ""
    /\ modalIsSubmitting' = FALSE
    /\ mutationCall' = null
    /\ UNCHANGED <<application, documents, modalIsLoading, modalError,
                   showPaymentForm, fetchCall, srvDocuments, outsideModal>>

\* deletePayment resolves
DeletePaymentResolves ==
    /\ mutationCall # null /\ mutationCall[1].op = "delete"
    /\ srvPayment' = null
    /\ srvDocuments' = <<>>
    /\ payment' = null
    /\ documents' = <<>>
    /\ modalIsSubmitting' = FALSE
    /\ mutationCall' = null
    /\ UNCHANGED <<application, modalIsLoading, modalError, showPaymentForm,
                   showRejectDialog, rejectionReason, fetchCall, outsideModal>>

\* the request in flight rejects: the handler's catch and finally
MutationRejects ==
    /\ mutationCall # null
    /\ modalError' = << "Failed to " \o mutationCall[1].op \o " payment" >>
    /\ modalIsSubmitting' = FALSE
    /\ mutationCall' = null
    /\ UNCHANGED <<application, payment, documents, modalIsLoading,
                   showPaymentForm, showRejectDialog, rejectionReason,
                   fetchCall, srvPayment, srvDocuments, outsideModal>>

NextModal ==
    \/ GetApplicationResolves
    \/ GetApplicationRejects
    \/ GetPaymentResolves
    \/ ListDocumentsResolves
    \/ PaymentFetchRejects
    \/ \E value \in BOOLEAN : SetShowPaymentForm(value)
    \/ handleRecordPayment
    \/ handleVerifyPayment
    \/ \E value \in BOOLEAN : SetShowRejectDialog(value)
    \/ \E text \in ReasonTexts : TypeRejectionReason(text)
    \/ handleRejectPayment
    \/ handleDeletePayment
    \/ RecordPaymentResolves
    \/ VerifyPaymentResolves
    \/ RejectPaymentResolves
    \/ DeletePaymentResolves
    \/ MutationRejects

SpecModal == InitModal /\ [][NextModal]_vars

\* C17: a payment's status moves only from Pending to Paid and from there to
\* Verified or to Rejected, both of which are final: for a payment that is
\* verified or rejected the modal offers no verify, reject or delete action.
C17_FinalStatusesOfferNothing ==
    ( Shown /\ payment # null /\ payment[1].status \in {"verified", "rejected"} )
      => OfferedActions(payment[1]) = {}

\* C18: once a verify or a reject has succeeded, the header badge of the
\* payment section and the Status field of the payment both show the new
\* status.
C18_StatusShownEverywhere ==
    ( Shown /\ payment # null /\ payment[1].status \in {"verified", "rejected"} )
      => ( /\ StatusField = Capitalize(srvPayment[1].status)
           /\ HeaderBadge = StatusField )

\* the modal shows 'No payment recorded' with its Record Payment button/form
NoPaymentShown == Shown /\ payment = null

\* C27: when the payment of an application is fetched successfully the modal
\* shows that payment even if fetching its document list fails, the 'No
\* payment recorded' state being for applications that have no payment: a
\* fetch that has got the payment and ends, ends with that payment on screen
C27_PaymentShownDespiteDocuments ==
    [][ ( fetchCall = "listDocuments" /\ fetchCall' = "none" )
          => ( payment' = payment /\ ~NoPaymentShown' ) ]_vars

(***************************************************************************)
(* DocumentUpload (C19)                                                    *)
(***************************************************************************)

ALLOWED_TYPES == { "application/pdf", "image/jpeg", "image/jpg", "image/png" }
MAX_SIZE == 5 * 1024 * 1024

\* how many files are handed to handleFile in one run
MaxUploads == 2

\* the files the admin picks or drops: File.type and File.size
FileTypes == ALLOWED_TYPES \cup { "image/gif" }
FileSizes == { 0, MAX_SIZE, MAX_SIZE + 1 }
Files == [ type : FileTypes, size : FileSizes ]

\* handleFile with a size check that turns away a file of exactly MAX_SIZE
validateFile_Strict(file) ==
    IF file.type \notin ALLOWED_TYPES
    THEN << "Invalid file type. Please upload PDF, JPG, or PNG files." >>
    ELSE IF file.size >= MAX_SIZE
    THEN << "File too large. Maximum size is 5MB." >>
    ELSE null

\* handleFile: the error of its two checks, null for a file that passes
validateFile(file) ==
    IF file.type \notin ALLOWED_TYPES
    THEN << "Invalid file type. Please upload PDF, JPG, or PNG files." >>
    ELSE IF file.size > MAX_SIZE
    THEN << "File too large. Maximum size is 5MB." >>
    ELSE null

\* DocumentUpload is rendered under a payment that is not verified
UploadMounted == Shown /\ payment # null /\ payment[1].status # "verified"

\* the modal shows a recorded payment, with the DocumentUpload under it
InitUpload ==
    /\ WizardIdle
    /\ LibIdle
    /\ DashboardIdle
    /\ PdfIdle
    /\ AuthIdle
    /\ UploadIdle
    /\ srvPayment \in { << Payment("pending", "") >>,
                        << Payment("rejected", "duplicate") >> }
    /\ srvDocuments = <<>>
    /\ application = << [ payment_status |-> ApplicationStatus(srvPayment) ] >>
    /\ payment = srvPayment
    /\ documents = <<>>
    /\ modalIsLoading = FALSE
    /\ modalError = null
    /\ showPaymentForm = FALSE
    /\ modalIsSubmitting = FALSE
    /\ showRejectDialog = FALSE
    /\ rejectionReason = ""
    /\ fetchCall = "none"
    /\ mutationCall = null

outsideUpload ==
    <<wizardVars, submitVars, pdfVars, authVars, libVars, listVars, reportVars,
      application, payment,
      modalIsLoading, modalError, showPaymentForm, modalIsSubmitting,
      showRejectDialog, rejectionReason, fetchCall, mutationCall, srvPayment>>

\* handleFile(file), up to `await adminApi.uploadDocument` for a file that
\* passes the checks
handleFile(file) ==
    /\ UploadMounted
    /\ Len(uploads) < MaxUploads
    /\ uploadError' = validateFile(file)
    /\ IF validateFile(file) # null
       THEN /\ uploads' = Append(uploads, [ file |-> file, phase |-> "rejected" ])
            /\ UNCHANGED isUploading
       ELSE /\ uploads' = Append(uploads, [ file |-> file, phase |-> "uploading" ])
            /\ isUploading' = TRUE
    /\ UNCHANGED <<documents, srvDocuments, outsideUpload>>

\* uploadDocument resolves: the server has stored the file, onUploaded() is
\* called and handleDocumentUploaded awaits listDocuments
UploadResolves(i) ==
    /\ i \in DOMAIN uploads
    /\ uploads[i].phase = "uploading"
    /\ srvDocuments' = Append(srvDocuments, Len(srvDocuments) + 1)
    /\ uploads' = [uploads EXCEPT ![i].phase = "uploaded"]
    /\ isUploading' = FALSE
    /\ UNCHANGED <<uploadError, documents, outsideUpload>>

\* uploadDocument rejects
UploadRejects(i) ==
    /\ i \in DOMAIN uploads
    /\ uploads[i].phase = "uploading"
    /\ uploadError' = << "Failed to upload document. Please try again." >>
    /\ uploads' = [uploads EXCEPT ![i].phase = "failed"]
    /\ isUploading' = FALSE
    /\ UNCHANGED <<documents, srvDocuments, outsideUpload>>

\* handleDocumentUploaded: listDocuments resolves
handleDocumentUploaded(i) ==
    /\ i \in DOMAIN uploads
    /\ uploads[i].phase = "uploaded"
    /\ documents' = srvDocuments
    /\ uploads' = [uploads EXCEPT ![i].phase = "listed"]
    /\ UNCHANGED <<uploadError, isUploading, srvDocuments, outsideUpload>>

NextUpload ==
    \/ \E file \in Files : handleFile(file)
    \/ \E i \in 1..MaxUploads : UploadResolves(i)
    \/ \E i \in 1..MaxUploads : UploadRejects(i)
    \/ \E i \in 1..MaxUploads : handleDocumentUploaded(i)

SpecUpload == InitUpload /\ [][NextUpload]_vars

\* C19: DocumentUpload sends a file to the server only if its type is PDF,
\* JPEG or PNG and its size is at most 5 * 1024 * 1024 bytes; for any other
\* file it sets an error, makes no upload request and does not call
\* onUploaded.
C19_UploadOnlyAllowedFiles ==
    /\ \A i \in DOMAIN uploads :
         LET file == uploads[i].file
             allowed ==
               /\ file.type \in { "application/pdf", "image/jpeg", "image/jpg",
                                  "image/png" }
               /\ file.size <= 5 * 1024 * 1024
         IN  IF allowed
             THEN uploads[i].phase \in { "uploading", "uploaded", "listed", "failed" }
             ELSE uploads[i].phase = "rejected"
    /\ ( uploads # <<>> /\ uploads[Len(uploads)].phase = "rejected" )
         => uploadError # null
    /\ Len(srvDocuments) =
         Cardinality({ i \in DOMAIN uploads :
                         uploads[i].phase \in { "uploaded", "listed" } })

\* a PDF one byte over the limit was turned away, and a PNG of exactly the
\* limit was uploaded and listed
C19_Witness ==
    /\ Len(uploads) = 2
    /\ uploads[1].file = [ type |-> "application/pdf", size |-> MAX_SIZE + 1 ]
    /\ uploads[1].phase = "rejected"
    /\ uploads[2].file = [ type |-> "image/png", size |-> MAX_SIZE ]
    /\ uploads[2].phase = "listed"
    /\ documents = << 1 >>

(***************************************************************************)
(* useAuth (C20)                                                           *)
(***************************************************************************)

\* how many getCurrentUser and login requests are in flight at once
MaxAuthCalls == 2

\* the access token the server hands out, and the user it reports
AccessToken == << "access_token" >>
UserData == << [ username |-> "admin", is_admin |-> TRUE ] >>

isAuthenticated == user # null

\* seq without its i-th element
RemoveAt(seq, i) == SubSeq(seq, 1, i - 1) \o SubSeq(seq, i + 1, Len(seq))

\* a request in flight; stale once logout has been called after it was issued
AuthCall(op) == [ op |-> op, stale |-> FALSE ]

\* the hook before its mount effect; a token may be left from an earlier visit
InitAuth ==
    /\ WizardIdle
    /\ LibIdle
    /\ DashboardIdle
    /\ PdfIdle
    /\ ModalClosed
    /\ UploadIdle
    /\ token \in { null, AccessToken }
    /\ user = null
    /\ authIsLoading = TRUE
    /\ authCalls = <<>>
    /\ loginError = ""
    /\ loggedOut = FALSE

outsideAuth ==
    <<wizardVars, submitVars, pdfVars, modalVars, uploadVars, libVars, listVars,
      reportVars>>

\* checkAuth (the mount effect, or a caller) up to `await getCurrentUser()`
checkAuth ==
    /\ Len(authCalls) < MaxAuthCalls
    /\ IF token = null
       THEN /\ user' = null
            /\ authIsLoading' = FALSE
            /\ UNCHANGED authCalls
       ELSE /\ authCalls' = Append(authCalls, AuthCall("getCurrentUser"))
            /\ UNCHANGED <<user, authIsLoading>>
    /\ UNCHANGED <<token, loginError, loggedOut, outsideAuth>>

\* getCurrentUser resolves: setUser(userData), finally setIsLoading(false)
GetCurrentUserResolves(i) ==
    /\ i \in DOMAIN authCalls
    /\ authCalls[i].op = "getCurrentUser"
    /\ user' = UserData
    /\ authIsLoading' = FALSE
    /\ authCalls' = RemoveAt(authCalls, i)
    /\ UNCHANGED <<token, loginError, loggedOut, outsideAuth>>

\* getCurrentUser rejects: the token is removed and the user cleared
GetCurrentUserRejects(i) ==
    /\ i \in DOMAIN authCalls
    /\ authCalls[i].op = "getCurrentUser"
    /\ token' = null
    /\ user' = null
    /\ authIsLoading' = FALSE
    /\ authCalls' = RemoveAt(authCalls, i)
    /\ UNCHANGED <<loginError, loggedOut, outsideAuth>>

\* AdminLogin.handleSubmit and login(username, password) up to
\* `await adminApi.login`
login ==
    /\ Len(authCalls) < MaxAuthCalls
    /\ loginError' = ""
    /\ authCalls' = Append(authCalls, AuthCall("login"))
    /\ UNCHANGED <<token, user, authIsLoading, loggedOut, outsideAuth>>

\* adminApi.login resolves: the token is stored and checkAuth is awaited,
\* which finds the token and issues getCurrentUser; a login issued after the
\* last logout has succeeded
LoginResolves(i) ==
    /\ i \in DOMAIN authCalls
    /\ authCalls[i].op = "login"
    /\ token' = AccessToken
    /\ authCalls' = [authCalls EXCEPT ![i].op = "getCurrentUser"]
    /\ loggedOut' = ( loggedOut /\ authCalls[i].stale )
    /\ UNCHANGED <<user, authIsLoading, loginError, outsideAuth>>

\* adminApi.login rejects: login returns false and AdminLogin shows the error
LoginRejects(i) ==
    /\ i \in DOMAIN authCalls
    /\ authCalls[i].op = "login"
    /\ loginError' = "Invalid username or password"
    /\ authCalls' = RemoveAt(authCalls, i)
    /\ UNCHANGED <<token, user, authIsLoading, loggedOut, outsideAuth>>

\* logout(): the requests in flight were issued before it
logout ==
    /\ token' = null
    /\ user' = null
    /\ loggedOut' = TRUE
    /\ authCalls' = [ i \in DOMAIN authCalls |-> [authCalls[i] EXCEPT !.stale = TRUE] ]
    /\ UNCHANGED <<authIsLoading, loginError, outsideAuth>>

NextAuth ==
    \/ checkAuth
    \/ \E i \in 1..MaxAuthCalls : GetCurrentUserResolves(i)
    \/ \E i \in 1..MaxAuthCalls : GetCurrentUserRejects(i)
    \/ login
    \/ \E i \in 1..MaxAuthCalls : LoginResolves(i)
    \/ \E i \in 1..MaxAuthCalls : LoginRejects(i)
    \/ logout

SpecAuth == InitAuth /\ [][NextAuth]_vars

\* C20: from the return of logout until a login started after it succeeds, no
\* token is stored and isAuthenticated is false, also when a checkAuth or a
\* login request issued before the logout completes after it.
C20_LoggedOutStaysLoggedOut ==
    loggedOut => ( token = null /\ ~isAuthenticated )

(***************************************************************************)
(* The functions of lib/utils.ts, called on their own (C21, C22, C24)      *)
(***************************************************************************)

\* every whole number up to MaxSmall is read, and above it the numbers made
\* of the groups below
MaxSmall == 1100
GroupValues ==
    { 0, 1, 5, 9, 10, 11, 15, 19, 20, 21, 25, 90, 99, 100, 101, 110, 111, 119,
      120, 150, 345, 900, 999 }
MillionValues == { 0, 1, 5, 12, 49, 50 }
WordsInputs ==
    (0..MaxSmall) \cup
    { n \in { m * 1000000 + t * 1000 + u :
                m \in MillionValues, t \in GroupValues, u \in GroupValues } :
        n <= BOND_VALUE_MAX }

InitLib ==
    /\ WizardIdle
    /\ PdfIdle
    /\ ModalClosed
    /\ UploadIdle
    /\ AuthIdle
    /\ DashboardIdle
    /\ libCall = null

outsideLib ==
    <<wizardVars, submitVars, pdfVars, modalVars, uploadVars, authVars, listVars,
      reportVars>>

\* a call numberToWords(num)
CallNumberToWords(num) ==
    /\ libCall = null
    /\ libCall' = << [ fn |-> "numberToWords", arg |-> num,
                       result |-> numberToWords(num) ] >>
    /\ UNCHANGED outsideLib

\* the English reading of 1..19 and of the tens 10..90
Below20 ==
    << "One", "Two", "Three", "Four", "Five", "Six", "Seven", "Eight", "Nine",
       "Ten", "Eleven", "Twelve", "Thirteen", "Fourteen", "Fifteen", "Sixteen",
       "Seventeen", "Eighteen", "Nineteen" >>
TensNames ==
    << "Ten", "Twenty", "Thirty", "Forty", "Fifty", "Sixty", "Seventy",
       "Eighty", "Ninety" >>

\* the words that read r, 0 <= r <= 99 (none for 0)
ReadBelow100(r) ==
    IF r = 0 THEN <<>>
    ELSE IF r < 20 THEN << Below20[r] >>
    ELSE << TensNames[r \div 10] >>
           \o ( IF r % 10 = 0 THEN <<>> ELSE << Below20[r % 10] >> )

\* the words that read a group g, 1 <= g <= 999: 'and' only between a
\* hundreds digit and the non-zero remainder
ReadGroup(g) ==
    ( IF g >= 100 THEN << Below20[g \div 100], "Hundred" >> ELSE <<>> )
      \o ( IF g >= 100 /\ g % 100 # 0 THEN << "and" >> ELSE <<>> )
      \o ReadBelow100(g % 100)

\* the words that read n, 0 <= n < 10^9: each non-zero group followed by its
\* scale word, zero groups skipped
EnglishReading(n) ==
    IF n = 0 THEN << "Zero" >>
    ELSE LET m == n \div 1000000
             t == (n \div 1000) % 1000
             u == n % 1000
         IN  ( IF m # 0 THEN ReadGroup(m) \o << "Million" >> ELSE <<>> )
               \o ( IF t # 0 THEN ReadGroup(t) \o << "Thousand" >> ELSE <<>> )
               \o ( IF u # 0 THEN ReadGroup(u) ELSE <<>> )

\* C21: for every integer n with 0 <= n <= 50,000,000, numberToWords(n) is the
\* English reading of n: 'Zero' for 0, each non-zero group of three digits
\* read and followed by its scale word, zero groups skipped, 'and' only
\* between a hundreds digit and the non-zero remainder of the same group
C21_NumberToWordsReads ==
    ( libCall # null /\ libCall[1].fn = "numberToWords" ) =>
        libCall[1].result = joinWords(EnglishReading(libCall[1].arg))

\* numberToWords has read 1001, 101 and the largest amount
C21_Witness ==
    /\ libCall # null
    /\ libCall[1].fn = "numberToWords"
    /\ \/ libCall[1].arg = 1001 /\ libCall[1].result = "One Thousand One"
       \/ libCall[1].arg = 101 /\ libCall[1].result = "One Hundred and One"
       \/ libCall[1].arg = BOND_VALUE_MAX /\ libCall[1].result = "Fifty Million"

\* the amounts formatMoneyInWords is called with: whole amounts, and
\* fractions (in thousandths) on both sides of half a Kobo and of 99.5 Kobo
NairaValues == { 0, 1, 100, BOND_VALUE_MIN, BOND_VALUE_MAX }
FractionValues == { 0, 1, 4, 6, 10, 125, 500, 504, 990, 994, 996, 999 }
MoneyInputs ==
    { [ whole |-> n, fraction |-> f ] : n \in NairaValues, f \in FractionValues }

\* a call formatMoneyInWords(amount)
CallFormatMoneyInWords(amount) ==
    /\ libCall = null
    /\ libCall' = << [ fn |-> "formatMoneyInWords", arg |-> amount,
                       result |-> formatMoneyInWords(amount.whole, amount.fraction) ] >>
    /\ UNCHANGED outsideLib

\* C22: for every non-negative amount formatMoneyInWords returns the words of
\* the whole-Naira part followed by ' Naira', and appends ' and <words> Kobo'
\* exactly when the fractional remainder rounds to at least one Kobo; the
\* Kobo figure it reports is between 1 and 99
C22_KoboBetween1And99 ==
    ( libCall # null /\ libCall[1].fn = "formatMoneyInWords" ) =>
        LET amount == libCall[1].arg
            whole == numberToWords(amount.whole) \o " Naira"
            \* the remainder is at least half a Kobo
            rounds == 2 * 100 * amount.fraction >= Thousandths
        IN  IF rounds
            THEN \E k \in 1..99 :
                    libCall[1].result
                        = whole \o " and " \o numberToWords(k) \o " Kobo"
            ELSE libCall[1].result = whole

\* the ten digits after the prefix: three numbers validation accepts and two
\* it does not
LocalNumbers ==
    { << "8", "0", "1", "2", "3", "4", "5", "6", "7", "8" >>,
      << "7", "0", "0", "0", "0", "0", "0", "0", "0", "0" >>,
      << "9", "2", "3", "4", "0", "2", "3", "4", "0", "0" >>,
      << "6", "0", "1", "2", "3", "4", "5", "6", "7", "8" >>,
      << "8", "0", "1", "2", "3", "4", "5", "6", "7" >> }
PhonePrefixes == { << "0" >>, << "2", "3", "4" >>, << "+", "2", "3", "4" >> }

\* the characters written between the digits, and where: after how many
\* characters of the spelling each one is inserted
Separators == { "-", " ", "(", ")", "." }
NonDigits == Separators \cup { "+" }
SeparatorLayouts == { {}, { 0 }, { 4 }, { 3, 7 }, { 0, 4, 8 }, { 1, 2, 14 } }

\* str with sep written after every count of characters in layout
RECURSIVE insertSeparators(_, _, _, _)
insertSeparators(str, layout, sep, i) ==
    ( IF i \in layout THEN << sep >> ELSE <<>> )
      \o ( IF i >= Len(str) THEN <<>>
           ELSE << str[i + 1] >> \o insertSeparators(str, layout, sep, i + 1) )

\* the spellings normalizePhoneNumber is called with: a number validation
\* accepts, written with one of the prefixes and separators inserted
PhoneInputs ==
    { [ number |-> n, sep |-> c,
        text |-> insertSeparators(prefix \o n, layout, c, 0) ] :
        n \in { l \in LocalNumbers :
                  \A q \in PhonePrefixes : phoneRegex(q \o l) },
        prefix \in PhonePrefixes, layout \in SeparatorLayouts, c \in NonDigits }

\* a call normalizePhoneNumber(phone.text)
CallNormalizePhoneNumber(phone) ==
    /\ libCall = null
    /\ libCall' = << [ fn |-> "normalizePhoneNumber", arg |-> phone,
                       result |-> normalizePhoneNumber(phone.text) ] >>
    /\ UNCHANGED outsideLib

\* the call under examination normalised a phone number
PhoneNormalized == libCall # null /\ libCall[1].fn = "normalizePhoneNumber"

\* every spelling of the number gives +234XXXXXXXXXX, a fixed point
SameNumber ==
    /\ libCall[1].result = << "+", "2", "3", "4" >> \o libCall[1].arg.number
    /\ normalizePhoneNumber(libCall[1].result) = libCall[1].result

\* C24: normalizePhoneNumber maps every spelling of the same Nigerian number
\* that validation accepts (0X, 234X, +234X, with any non-digit separators
\* inserted) to the same string +234XXXXXXXXXX, and applying it to its own
\* result changes nothing
C24_OneFormPerNumber == PhoneNormalized => SameNumber

\* C24 with separators other than '+', the one non-digit the function keeps
C24_OneFormPerNumberNoPlus ==
    ( PhoneNormalized /\ libCall[1].arg.sep # "+" ) => SameNumber

\* '(080) 1234 5678'-like spellings have been normalised: separators were
\* removed from a 0-, a 234- and a +234-spelling
C24_Witness ==
    /\ PhoneNormalized
    /\ libCall[1].arg.sep # "+"
    /\ Len(libCall[1].arg.text) > Len(libCall[1].result)
    /\ libCall[1].result
         = << "+", "2", "3", "4", "8", "0", "1", "2", "3", "4", "5", "6", "7", "8" >>

NextLib ==
    \/ \E num \in WordsInputs : CallNumberToWords(num)
    \/ \E phone \in PhoneInputs : CallNormalizePhoneNumber(phone)
    \/ \E amount \in MoneyInputs : CallFormatMoneyInWords(amount)

SpecLib == InitLib /\ [][NextLib]_vars

(***************************************************************************)
(* The reports tab of the AdminDashboard (C26)                             *)
(***************************************************************************)

\* how many fetchReportData calls the admin has in flight at a time, and how
\* many mark-as-submitted requests are followed
MaxReportCalls == 2
MaxMarks == 1

\* the months and years of the two selectors that the model selects
ReportMonths == { "January", "February" }
ReportYears == { 2025, 2026 }

\* server: verified_count of the summary of a period
srvVerifiedCount(period) ==
    IF period = [ month |-> "February", year |-> 2025 ] THEN 0 ELSE 1

\* server: the MonthlyReportSummary of a period, as far as the tab reads it
MonthlyReportSummary(period) ==
    [ period |-> period, is_submitted |-> period \in srvSubmitted,
      verified_count |-> srvVerifiedCount(period) ]

\* the tab has been opened: its effect has started fetchReportData
InitReports ==
    /\ WizardIdle
    /\ PdfIdle
    /\ ModalClosed
    /\ UploadIdle
    /\ AuthIdle
    /\ LibIdle
    /\ ListIdle
    /\ reportPeriod = [ month |-> "January", year |-> 2026 ]
    /\ reportSummary = null
    /\ submissions = {}
    /\ isLoadingReport = TRUE
    /\ reportCalls = << [ period |-> reportPeriod ] >>
    /\ markCalls = <<>>
    /\ srvSubmitted \in { {}, { [ month |-> "February", year |-> 2026 ] } }

outsideReports ==
    <<wizardVars, submitVars, pdfVars, modalVars, uploadVars, authVars, libVars,
      listVars>>

\* the "Mark as Submitted to DMO" button is on screen
MarkButtonShown ==
    /\ ~isLoadingReport
    /\ reportSummary # null
    /\ ~reportSummary[1].is_submitted
    /\ reportSummary[1].verified_count > 0

\* setReportMonth / setReportYear and the effect on [activeTab, reportMonth,
\* reportYear]: fetchReportData up to its await, for the new selection
SelectPeriod(period) ==
    /\ Len(reportCalls) < MaxReportCalls
    /\ reportPeriod' = period
    /\ isLoadingReport' = TRUE
    /\ reportCalls' = Append(reportCalls, [ period |-> period ])
    /\ UNCHANGED <<reportSummary, submissions, markCalls, srvSubmitted>>
    /\ UNCHANGED outsideReports

\* the Month of Offer selector
setReportMonth(month) ==
    /\ month # reportPeriod.month
    /\ SelectPeriod([ reportPeriod EXCEPT !.month = month ])

\* the Year selector
setReportYear(year) ==
    /\ year # reportPeriod.year
    /\ SelectPeriod([ reportPeriod EXCEPT !.year = year ])

\* the Refresh button: fetchReportData up to its await
ClickRefresh ==
    /\ Len(reportCalls) < MaxReportCalls
    /\ isLoadingReport' = TRUE
    /\ reportCalls' = Append(reportCalls, [ period |-> reportPeriod ])
    /\ UNCHANGED <<reportPeriod, reportSummary, submissions, markCalls,
                   srvSubmitted>>
    /\ UNCHANGED outsideReports

\* fetchReportData: both requests of call i resolve
FetchReportResolves(i) ==
    /\ i \in DOMAIN reportCalls
    /\ reportSummary' = << MonthlyReportSummary(reportCalls[i].period) >>
    /\ submissions' = srvSubmitted
    /\ isLoadingReport' = FALSE
    /\ reportCalls' = RemoveAt(reportCalls, i)
    /\ UNCHANGED <<reportPeriod, markCalls, srvSubmitted>>
    /\ UNCHANGED outsideReports

\* fetchReportData: a request of call i rejects
FetchReportRejects(i) ==
    /\ i \in DOMAIN reportCalls
    /\ isLoadingReport' = FALSE
    /\ reportCalls' = RemoveAt(reportCalls, i)
    /\ UNCHANGED <<reportPeriod, reportSummary, submissions, markCalls,
                   srvSubmitted>>
    /\ UNCHANGED outsideReports

\* handleMarkAsSubmitted up to `await adminApi.markAsSubmittedToDmo`
handleMarkAsSubmitted ==
    /\ MarkButtonShown
    /\ Len(markCalls) < MaxMarks
    /\ markCalls' = Append(markCalls, [ period |-> reportPeriod,
                                        summary |-> reportSummary[1],
                                        phase |-> "sent" ])
    /\ UNCHANGED <<reportPeriod, reportSummary, submissions, isLoadingReport,
                   reportCalls, srvSubmitted>>
    /\ UNCHANGED outsideReports

\* markAsSubmittedToDmo resolves: the server records the submission and the
\* handler calls the fetchReportData of its render
MarkAsSubmittedResolves(i) ==
    /\ i \in DOMAIN markCalls
    /\ markCalls[i].phase = "sent"
    /\ markCalls' = [ markCalls EXCEPT ![i].phase = "done" ]
    /\ srvSubmitted' = srvSubmitted \cup { markCalls[i].period }
    /\ isLoadingReport' = TRUE
    /\ reportCalls' = Append(reportCalls, [ period |-> markCalls[i].period ])
    /\ UNCHANGED <<reportPeriod, reportSummary, submissions>>
    /\ UNCHANGED outsideReports

\* markAsSubmittedToDmo rejects: an alert
MarkAsSubmittedRejects(i) ==
    /\ i \in DOMAIN markCalls
    /\ markCalls[i].phase = "sent"
    /\ markCalls' = [ markCalls EXCEPT ![i].phase = "failed" ]
    /\ UNCHANGED <<reportPeriod, reportSummary, submissions, isLoadingReport,
                   reportCalls, srvSubmitted>>
    /\ UNCHANGED outsideReports

NextReports ==
    \/ \E month \in ReportMonths : setReportMonth(month)
    \/ \E year \in ReportYears : setReportYear(year)
    \/ ClickRefresh
    \/ \E i \in 1..(MaxReportCalls + MaxMarks) : FetchReportResolves(i)
    \/ \E i \in 1..(MaxReportCalls + MaxMarks) : FetchReportRejects(i)
    \/ handleMarkAsSubmitted
    \/ \E i \in 1..MaxMarks : MarkAsSubmittedResolves(i)
    \/ \E i \in 1..MaxMarks : MarkAsSubmittedRejects(i)

SpecReports == InitReports /\ [][NextReports]_vars

\* C26: a mark-as-submitted request for a period is sent only if the report
\* summary displayed was fetched for that same period and shows it as not yet
\* submitted, also when the selection changes while earlier summary requests
\* are in flight and their responses arrive out of order
C26_MarkedPeriodIsDisplayed ==
    \A i \in DOMAIN markCalls :
        /\ markCalls[i].summary.period = markCalls[i].period
        /\ ~markCalls[i].summary.is_submitted

(***************************************************************************)
(* The applications list of the AdminDashboard (C28, C29)                  *)
(***************************************************************************)

\* how many fetchData calls the admin starts while others are in flight, and
\* the last page the model pages to
MaxListCalls == 2
MaxPage == 4

\* what the admin types into the Search filter
SearchTexts == { "", "ada", "zzz" }

\* server: total_pages of the applications matching a search text
srvTotalPages(search) ==
    IF search = "" THEN 3 ELSE IF search = "ada" THEN 2 ELSE 1

\* the dashboard is mounted for a logged-in admin: the effect on [user,
\* filters.page] has started fetchData
InitList ==
    /\ WizardIdle
    /\ PdfIdle
    /\ ModalClosed
    /\ UploadIdle
    /\ AuthIdle
    /\ LibIdle
    /\ ReportIdle
    /\ filters = [ page |-> 1, search |-> "" ]
    /\ totalPages = 1
    /\ applications = null
    /\ listIsLoading = TRUE
    /\ listCalls = << [ page |-> 1, search |-> "" ] >>
    /\ searchClick = null

outsideList ==
    <<wizardVars, submitVars, pdfVars, modalVars, uploadVars, authVars, libVars,
      reportVars>>

\* the Search input: setFilters(prev => ({ ...prev, search }))
setSearch(text) ==
    /\ text # filters.search
    /\ filters' = [ filters EXCEPT !.search = text ]
    /\ UNCHANGED <<totalPages, applications, listIsLoading, listCalls,
                   searchClick>>
    /\ UNCHANGED outsideList

\* a page button: setFilters(prev => ({ ...prev, page })) and, filters.page
\* having changed, the effect's fetchData up to its await
GoToPage(page) ==
    /\ totalPages > 1
    /\ Len(listCalls) < MaxListCalls
    /\ filters' = [ filters EXCEPT !.page = page ]
    /\ listIsLoading' = TRUE
    /\ listCalls' = Append(listCalls, [ page |-> page, search |-> filters.search ])
    /\ searchClick' = null
    /\ UNCHANGED <<totalPages, applications>>
    /\ UNCHANGED outsideList

\* the Previous button, disabled on page 1
ClickPreviousPage ==
    /\ filters.page # 1
    /\ GoToPage(filters.page - 1)

\* the Next button, disabled on the page that equals totalPages
ClickNextPage ==
    /\ filters.page # totalPages
    /\ filters.page < MaxPage
    /\ GoToPage(filters.page + 1)

\* handleSearch: the page is set to 1 and fetchData is called with the
\* filters of the render the click happened in; if the page was not 1 the
\* effect then calls fetchData again with the new filters
handleSearch ==
    /\ Len(listCalls) < MaxListCalls
    /\ filters' = [ filters EXCEPT !.page = 1 ]
    /\ listIsLoading' = TRUE
    /\ listCalls' =
         Append(listCalls, [ page |-> filters.page, search |-> filters.search ])
           \o ( IF filters.page # 1
                THEN << [ page |-> 1, search |-> filters.search ] >>
                ELSE <<>> )
    /\ searchClick' = << [ search |-> filters.search, failed |-> FALSE ] >>
    /\ UNCHANGED <<totalPages, applications>>
    /\ UNCHANGED outsideList

\* onPaymentUpdated of the detail modal of a listed application: fetchData
onPaymentUpdated ==
    /\ applications # null
    /\ Len(listCalls) < MaxListCalls
    /\ listIsLoading' = TRUE
    /\ listCalls' = Append(listCalls, [ page |-> filters.page,
                                        search |-> filters.search ])
    /\ searchClick' = null
    /\ UNCHANGED <<filters, totalPages, applications>>
    /\ UNCHANGED outsideList

\* fetchData: the three requests of call i resolve
FetchDataResolves(i) ==
    /\ i \in DOMAIN listCalls
    /\ applications' = << [ page |-> listCalls[i].page,
                            search |-> listCalls[i].search ] >>
    /\ totalPages' = srvTotalPages(listCalls[i].search)
    /\ listIsLoading' = FALSE
    /\ listCalls' = RemoveAt(listCalls, i)
    /\ UNCHANGED <<filters, searchClick>>
    /\ UNCHANGED outsideList

\* fetchData: a request of call i rejects
FetchDataRejects(i) ==
    /\ i \in DOMAIN listCalls
    /\ listIsLoading' = FALSE
    /\ listCalls' = RemoveAt(listCalls, i)
    /\ searchClick' = IF searchClick = null THEN null
                      ELSE << [ searchClick[1] EXCEPT !.failed = TRUE ] >>
    /\ UNCHANGED <<filters, totalPages, applications>>
    /\ UNCHANGED outsideList

NextList ==
    \/ \E text \in SearchTexts : setSearch(text)
    \/ ClickPreviousPage
    \/ ClickNextPage
    \/ handleSearch
    \/ onPaymentUpdated
    \/ \E i \in 1..(MaxListCalls + 1) : FetchDataResolves(i)
    \/ \E i \in 1..(MaxListCalls + 1) : FetchDataRejects(i)

SpecList == InitList /\ [][NextList]_vars

\* C28: in the admin applications list 1 <= filters.page <= totalPages after
\* any sequence of Previous, Next, Search, filter edits and data refreshes,
\* totalPages being what the server last reported
C28_PageWithinTotalPages ==
    filters.page >= 1 /\ filters.page <= totalPages

\* C29: after a click on Search, once all outstanding requests have settled
\* (none failed), the list on screen is page 1 of the results for the filters
\* in effect at the click
C29_SearchShowsFirstPage ==
    ( searchClick # null /\ ~searchClick[1].failed /\ listCalls = <<>> ) =>
        applications = << [ page |-> 1, search |-> searchClick[1].search ] >>

====
